---- MODULE Spec2Model ----
(***************************************************************************)
(* A model of the conversation orchestration engine of tool-chat:          *)
(*   - the LangGraph state graph built by GraphManager.build_graph         *)
(*     (llm_call, tools, summarize and their edges), the State channels    *)
(*     and their reducers, and the SSE bridge generate_chat_responses;     *)
(*   - the admission counter of /chat_stream (check_concurrent_limit,      *)
(*     decrement_concurrent_count);                                        *)
(*   - the lazy construction of the checkpointer and the compiled graph    *)
(*     in GraphManager;                                                    *)
(*   - the memory merge append_memory and the /chat_history route with     *)
(*     its response cache;                                                 *)
(*   - day_name_tool and the long-term memory read of llm_call_node.       *)
(* The specifications of the module: Spec (one conversation turn) and      *)
(* LiveSpec (the same under the scheduling of the graph runtime),          *)
(* ResumeSpec (successive turns, with a process restart in between),       *)
(* AdmissionSpec and LoadedAdmissionSpec (concurrent /chat_stream          *)
(* requests on idle and on loaded counters), LimiterSpec (the context      *)
(* manager limit_concurrent_streams), ManagerSpec (concurrent tasks on one *)
(* GraphManager), MemorySpec (a payload merged into a memory record),      *)
(* StreamSpec (a turn whose client may go away, with /chat_history         *)
(* requests around it), DaySpec (a call of day_name_tool) and ReadSpec     *)
(* (two runs of llm_call_node on stores that differ in another user's      *)
(* record).                                                                *)
(***************************************************************************)
EXTENDS Integers, Sequences, FiniteSets, TLC

(***************************************************************************)
(* Program constants.                                                      *)
(***************************************************************************)
MAX_MESSAGES == 10
MAX_ATTEMPTS == 3
MAX_CONCURRENT == 2

(***************************************************************************)
(* Bounds of the model.                                                    *)
(***************************************************************************)
\* Plain (tool-free, summary-free) turns a thread may already hold in Init.
MaxPriorTurns == 5
\* tools round trips allowed within one graph run.
MaxToolRounds == 1
\* Chunks one model generation streams.
MaxChunks == 1
\* Result URLs one Tavily search returns.
MaxUrls == 2
\* /chat_stream requests that arrive during a behaviour.
NumRequests == 3
\* Tasks that call into one GraphManager during a behaviour.
NumTasks == 2
\* Turns (streams) of a behaviour of ResumeSpec.
MaxTurns == 2
\* Longest list of a memory field.
MaxListLen == 2
\* chat_history requests of a behaviour.
MaxLookups == 2

VARIABLES
    \* ---- State channels of the thread's checkpoint (logic/state.py)
    query,          \* Annotated[list, add_messages]
    messages,       \* Annotated[list, add_messages]
    answer,         \* content of the latest llm_call response: number of fragments
    summary,        \* "" or the text of the rolling summary
    runs,           \* int
    \* ---- the graph run of the turn in flight
    thread_id,      \* configurable.thread_id of the thread (0: none yet)
    next,           \* nodes scheduled for the next superstep
    attempts,       \* failed attempts of the superstep in progress
    visits,         \* history: the supersteps completed in this run
    \* ---- generate_chat_responses
    pc,             \* position of the generator
    sse,            \* history: the events yielded on this stream
    events,         \* history: the graph events of the run in flight
    \* ---- counters of the model
    nextId,         \* next fresh identifier (message ids, call ids)
    \* ---- the checkpoint database and histories of the turn
    threads,        \* latest checkpoint of every thread other than thread_id
    turn,           \* history: the request of the turn and what preceded it
    invocation,     \* history: the llm_call_node invocation of the latest step
    passes,         \* history: the summarization passes of the run in flight
    \* ---- admission control (api/core/rate_limit.py)
    redis_count,    \* value of CONCURRENT_STREAM_KEY in Redis
    redis_up,       \* whether a Redis command issued now succeeds
    redis_outage,   \* history: Redis has been unreachable at some time
    ttl_set,        \* whether the key carries a time to live
    concurrent_counter,   \* _concurrent_counter, the in-memory fallback
    req,            \* per request: position in chat_stream and history
    \* ---- GraphManager (logic/graph.py)
    checkpointer,           \* 0 (None) or the connection context it came from
    checkpointer_context,   \* 0 (None) or a connection context
    graph_instance,         \* NoGraph (None) or the compiled graph
    opened,                 \* history: contexts whose __aenter__ completed
    closed,                 \* history: contexts whose __aexit__ ran
    compiled,               \* history: number of builder.compile calls
    nextCtx,                \* next fresh context identifier
    task,                   \* per task: position in its GraphManager call
    shutdown,               \* position of cleanup_checkpointer
    \* ---- a memory merge (logic/utils.py, logic/nodes.py)
    existing_memory,        \* the record passed as `existing`
    new_memory,             \* the payload passed as `new`
    updated_memory,         \* history: the records returned, merge after merge
    memory_before,          \* history: existing_memory as it was first passed
    \* ---- chat_stream.event_generator and its client
    connected,              \* whether the client of the stream is still there
    event_generator,        \* position of the loop, number of events taken
    forwarded,              \* history: the events yielded to the client
    \* ---- GET /chat_history (api/routes/v1/history.py, api/core/cache.py)
    cache,                  \* cached responses, by checkpoint_id
    chat_history,           \* history: the latest request and its response
    \* ---- day_name_tool (logic/tools.py)
    date,                   \* the arguments year, month, day of a call
    day_name,               \* the call: pending, returned a name, or raised
    \* ---- the long-term memory read of llm_call_node (logic/nodes.py)
    store,                  \* the store of each of two runs: items by namespace
    user_id,                \* configurable.user_id of the turn
    prompt_inputs           \* the inputs each of two runs of llm_call_node built

convVars == <<query, messages, answer, summary, runs, thread_id, next,
              attempts, visits, pc, sse, events, nextId, threads, turn, invocation,
              passes>>

admVars == <<redis_count, redis_up, redis_outage, ttl_set, concurrent_counter, req>>

mgrVars == <<checkpointer, checkpointer_context, graph_instance, opened, closed,
             compiled, nextCtx, task, shutdown>>

memVars == <<existing_memory, new_memory, updated_memory, memory_before>>

strVars == <<connected, event_generator, forwarded, cache, chat_history>>

dayVars == <<date, day_name>>

readVars == <<store, user_id, prompt_inputs>>

vars == <<convVars, admVars, mgrVars, memVars, strVars, dayVars, readVars>>

(***************************************************************************)
(* Messages.  type is the message class; a RemoveMessage carries only the  *)
(* id of the message it deletes.                                           *)
(***************************************************************************)
HumanMessage(i) ==
    [id |-> i, type |-> "human", name |-> "", tool_calls |-> <<>>, tool_call_id |-> 0]

AIMessage(i, calls) ==
    [id |-> i, type |-> "ai", name |-> "", tool_calls |-> calls, tool_call_id |-> 0]

ToolMessage(i, nm, cid) ==
    [id |-> i, type |-> "tool", name |-> nm, tool_calls |-> <<>>, tool_call_id |-> cid]

RemoveMessage(i) ==
    [id |-> i, type |-> "remove", name |-> "", tool_calls |-> <<>>, tool_call_id |-> 0]

ToolCall(nm, i) == [name |-> nm, id |-> i]

Last(s) == s[Len(s)]

\* Index of the message with identifier i in seq s, 0 when there is none.
IndexOfId(s, i) ==
    IF \E k \in 1..Len(s) : s[k].id = i
    THEN CHOOSE k \in 1..Len(s) : s[k].id = i
    ELSE 0

(***************************************************************************)
(* The add_messages reducer of the query and messages channels: an entry   *)
(* whose id is already present replaces that entry in place, a             *)
(* RemoveMessage marks the entry with its id for deletion, any other entry *)
(* is appended.  (The library raises on a RemoveMessage for an unknown     *)
(* id; no node of this graph writes one.)                                  *)
(***************************************************************************)
RECURSIVE MergeFrom(_, _, _)
\* One entry of right merged into merged, then the rest of right.
MergeStep(merged, removed, right) ==
    IF right = <<>>
    THEN SelectSeq(merged, LAMBDA m : m.id \notin removed)
    ELSE LET m == Head(right)
             idx == IndexOfId(merged, m.id)
         IN  IF idx # 0
             THEN IF m.type = "remove"
                  THEN MergeFrom(merged, removed \cup {m.id}, Tail(right))
                  ELSE MergeFrom([merged EXCEPT ![idx] = m], removed \ {m.id}, Tail(right))
             ELSE IF m.type = "remove"
                  THEN MergeFrom(merged, removed, Tail(right))
                  ELSE MergeFrom(Append(merged, m), removed, Tail(right))

\* MergeStep on the values of the arguments (each is evaluated once, also
\* where an action is evaluated for its enabledness).
MergeFrom(merged, removed, right) ==
    CHOOSE r \in {MergeStep(mg, rm, rt) : mg \in {merged}, rm \in {removed}, rt \in {right}} :
        TRUE

\* A variant without a reducer: the write replaces the channel.
add_messages_overwrite(left, right) == right

add_messages(left, right) == MergeFrom(left, {}, right)

(***************************************************************************)
(* Events of graph.astream_events(version="v2") that the bridge reads.     *)
(* node is metadata.langgraph_node, k the content of a streamed chunk (its  *)
(* position in its generation), output the data.output of a tool run.      *)
(***************************************************************************)
END == "__end__"

\* data.output of a tool run: the "results" of a Tavily response (each result
\* with its url, 0 for a result without one) or the content of the
\* ToolMessage a tool of the graph returned.
Output(results, content) == [results |-> results, content |-> content]

NoOutput == Output(<<>>, 0)

\* The response of TavilySearch with n results: one url each, in rank order.
TavilyResponse(n) == Output([i \in 1..n |-> [url |-> i]], 0)

ChatModelStream(node, k) ==
    [event |-> "on_chat_model_stream", node |-> node, name |-> "",
     tool_calls |-> <<>>, output |-> NoOutput, k |-> k]

ChatModelEnd(node, calls) ==
    [event |-> "on_chat_model_end", node |-> node, name |-> "",
     tool_calls |-> calls, output |-> NoOutput, k |-> 0]

ToolEnd(nm, output) ==
    [event |-> "on_tool_end", node |-> "tools", name |-> nm,
     tool_calls |-> <<>>, output |-> output, k |-> 0]

\* An event of the SSE stream: its type (schemas/types.py Events) and payload
\* (an identifier or a chunk's content in data, the result urls in urls).
Sse(type, data) == [type |-> type, data |-> data, urls |-> <<>>]

SearchResult(urls) == [type |-> "search_result", data |-> Len(urls), urls |-> urls]

\* `urls`: the url of every result of the Tavily response that has one.
ExtractUrls(output) ==
    LET found == SelectSeq(output.results, LAMBDA r : r.url # 0)
    IN  [i \in 1..Len(found) |-> found[i].url]

(***************************************************************************)
(* The body of the `async for event in events` loop of                     *)
(* generate_chat_responses: the events yielded for one graph event.        *)
(***************************************************************************)
\* A variant that streams the chunks of every node.
IsLlmCallChunk_any_node(ev) == ev.event = "on_chat_model_stream"

\* event_type == "on_chat_model_stream" and langgraph_node == "llm_call"
IsLlmCallChunk(ev) == ev.event = "on_chat_model_stream" /\ ev.node = "llm_call"

\* A variant that sends the urls whether or not there are any.
SearchResultEvents_always(urls) == <<SearchResult(urls)>>

\* `if urls:` the search_result event is yielded.
SearchResultEvents(urls) == IF urls # <<>> THEN <<SearchResult(urls)>> ELSE <<>>

\* A variant that takes the end of any tool of the graph for a date result.
IsDateCompletion_any_tool(ev) == ev.event = "on_tool_end" /\ ev.name # "tavily_search"

\* event_type == "on_tool_end" and event["name"] == "date_and_time_tool"
IsDateCompletion(ev) == ev.event = "on_tool_end" /\ ev.name = "date_and_time_tool"

\* A variant that announces the first tool call of the response, whatever
\* its tool.
SearchStartEvents_any_tool(tool_calls) ==
    IF tool_calls # <<>>
    THEN <<Sse("search_start", tool_calls[1].id)>>
    ELSE <<>>

\* The events yielded when a model response is complete: search_start with
\* the query of the first search_tool call (a call's query is identified with
\* the call), when there is one.
SearchStartEvents(tool_calls) ==
    LET search_calls == SelectSeq(tool_calls, LAMBDA c : c.name = "search_tool")
    IN  IF search_calls # <<>>
        THEN <<Sse("search_start", search_calls[1].id)>>
        ELSE <<>>

HandleEvent(ev) ==
    IF IsLlmCallChunk(ev)
    THEN <<Sse("content", ev.k)>>
    ELSE IF ev.event = "on_chat_model_end"
    THEN SearchStartEvents(ev.tool_calls)
    ELSE IF ev.event = "on_tool_end" /\ ev.name = "tavily_search"
    THEN SearchResultEvents(ExtractUrls(ev.output))
    ELSE IF IsDateCompletion(ev)
    THEN <<Sse("date_result", ev.output.content)>>
    ELSE <<>>

RECURSIVE Bridge(_)
Bridge(evs) ==
    IF evs = <<>> THEN <<>> ELSE HandleEvent(Head(evs)) \o Bridge(Tail(evs))

(***************************************************************************)
(* The text of an event on the wire.  Every yield is "data: " followed by  *)
(* the text of an object; the object is given by its members, each with    *)
(* its key and the token its value was written as: a string in quotes or   *)
(* the JSON text of a payload (both by json.dumps), or raw text put in by  *)
(* an f-string field.                                                      *)
(***************************************************************************)
Member(key, kind, text, data, urls) ==
    [key |-> key, kind |-> kind, text |-> text, data |-> data, urls |-> urls]

\* json.dumps of a str; a member of Events, a str subclass, is dumped as its
\* value.
JsonString(key, text) == Member(key, "string", text, 0, <<>>)

\* json.dumps of the payload of an event.
JsonPayload(key, e) == Member(key, "json", "", e.data, e.urls)

\* What the f-string field {Events.X} puts in: format() of the member, which
\* for an Enum with a str mixin is str() of the member, without quotes.
EventsFormat(type) ==
    CASE type = "checkpoint"    -> "Events.CHECKPOINT"
      [] type = "content"       -> "Events.CONTENT"
      [] type = "search_start"  -> "Events.SEARCH_START"
      [] type = "search_result" -> "Events.SEARCH_RESULT"
      [] type = "date_result"   -> "Events.DATE_RESULT"
      [] type = "end"           -> "Events.COMPLETION_END"

Interpolated(key, text) == Member(key, "raw", text, 0, <<>>)

\* The key of the payload in the object of an event.
PayloadKey(type) ==
    CASE type = "checkpoint"    -> "checkpoint_id"
      [] type = "content"       -> "content"
      [] type = "search_start"  -> "query"
      [] type = "search_result" -> "urls"
      [] type = "date_result"   -> "result"

\* The line yielded for an event: checkpoint, content, search_start and
\* date_result dump a dict; search_result and end are written by an f-string
\* around the Events member.
SseLine(e) ==
    [prefix  |-> "data: ",
     members |-> IF e.type = "end"
                 THEN <<Interpolated("type", EventsFormat(e.type))>>
                 ELSE IF e.type = "search_result"
                 THEN <<Interpolated("type", EventsFormat(e.type)),
                        JsonPayload(PayloadKey(e.type), e)>>
                 ELSE <<JsonString("type", e.type), JsonPayload(PayloadKey(e.type), e)>>]

(***************************************************************************)
(* The client (frontend/app.py): parse_sse_event decodes a line with       *)
(* json.loads and answers None when the text is not JSON.                  *)
(***************************************************************************)
\* Raw text that is a JSON value on its own.
JsonLiterals == {"true", "false", "null"}

\* json.loads raises JSONDecodeError on a value that is neither quoted, nor
\* JSON text, nor a literal.
Decodable(members) ==
    \A i \in 1..Len(members) :
        members[i].kind = "raw" => members[i].text \in JsonLiterals

\* A decoded event; ok is FALSE for None.
Decoded(ok, type, data, urls) == [ok |-> ok, type |-> type, data |-> data, urls |-> urls]

parse_sse_event(line) ==
    IF line.prefix = "data: " /\ Decodable(line.members)
    THEN LET type == line.members[1].text
             payload == Last(line.members)
         IN  Decoded(TRUE, type, payload.data, payload.urls)
    ELSE Decoded(FALSE, "", 0, <<>>)

(***************************************************************************)
(* What the nodes emit while they run.                                     *)
(***************************************************************************)
LlmEvents(n, calls) ==
    [k \in 1..n |-> ChatModelStream("llm_call", k)] \o <<ChatModelEnd("llm_call", calls)>>

\* search_tool runs TavilySearch.ainvoke inside its own tool run; a tool of
\* the graph ends with its ToolMessage, whose content is identified here with
\* the call it answers.
RECURSIVE ToolsEvents(_, _)
ToolsEvents(calls, urls) ==
    IF calls = <<>> THEN <<>>
    ELSE (IF Head(calls).name = "search_tool"
          THEN <<ToolEnd("tavily_search", TavilyResponse(urls)),
                 ToolEnd("search_tool", Output(<<>>, Head(calls).id))>>
          ELSE <<ToolEnd(Head(calls).name, Output(<<>>, Head(calls).id))>>)
         \o ToolsEvents(Tail(calls), urls)

SummarizeEvents(ok) ==
    IF ok THEN <<ChatModelStream("summarize", 1), ChatModelEnd("summarize", <<>>)>>
    ELSE <<>>

(***************************************************************************)
(* The nodes: each returns the State it writes.                            *)
(***************************************************************************)
\* The response of llm_call_node: of the tool-bound model when that request
\* succeeds, else of the fallback model, which has no tools bound.
LlmResponse(primary_ok, names, base) ==
    IF primary_ok
    THEN AIMessage(base, [i \in 1..Len(names) |-> ToolCall(names[i], base + i)])
    ELSE AIMessage(base, <<>>)

\* A variant that writes the response before the query.
llm_call_node_swapped(response, content) ==
    [query    |-> query,
     answer   |-> content,
     messages |-> <<response, Last(query)>>,
     runs     |-> runs,
     summary  |-> summary]

llm_call_node(response, content) ==
    [query    |-> query,
     answer   |-> content,
     messages |-> <<Last(query), response>>,
     runs     |-> runs,
     summary  |-> summary]

\* A variant whose failure path drops the summary.
summarization_node_reset(ok, text) ==
    IF ~ok
    THEN [query |-> query, answer |-> answer, messages |-> <<>>,
          runs |-> runs, summary |-> ""]
    ELSE [query    |-> query,
          answer   |-> answer,
          messages |-> [i \in 1..(IF Len(messages) > 2 THEN Len(messages) - 2 ELSE 0)
                           |-> RemoveMessage(messages[i].id)],
          runs     |-> runs,
          summary  |-> text]

summarization_node(ok, text) ==
    IF ~ok
    THEN [query |-> query, answer |-> answer, messages |-> <<>>,
          runs |-> runs, summary |-> summary]
    ELSE [query    |-> query,
          answer   |-> answer,
          messages |-> [i \in 1..(IF Len(messages) > 2 THEN Len(messages) - 2 ELSE 0)
                           |-> RemoveMessage(messages[i].id)],
          runs     |-> runs,
          summary  |-> text]

\* ToolNode([date_and_time_tool, search_tool]): one ToolMessage per tool call
\* of the latest message, tagged with the call's id.
tool_node(msgs, base) ==
    LET calls == Last(msgs).tool_calls
    IN  [messages |-> [i \in 1..Len(calls) |->
                          ToolMessage(base + i - 1, calls[i].name, calls[i].id)]]

(***************************************************************************)
(* The conditional edges out of llm_call.                                  *)
(***************************************************************************)
\* A variant that looks for a tool call anywhere in the history.
tools_condition_any(msgs) ==
    IF \E i \in 1..Len(msgs) : msgs[i].type = "ai" /\ Len(msgs[i].tool_calls) > 0
    THEN "tools" ELSE END

tools_condition(msgs) ==
    IF Last(msgs).type = "ai" /\ Len(Last(msgs).tool_calls) > 0 THEN "tools" ELSE END

\* A variant with the comparison off by one.
should_summarize_ge(msgs) ==
    IF Len(msgs) >= MAX_MESSAGES THEN "summarize" ELSE END

should_summarize(msgs) ==
    IF Len(msgs) > MAX_MESSAGES THEN "summarize" ELSE END

\* Both add_conditional_edges calls attach a branch to llm_call; the runtime
\* evaluates every branch of a node and schedules the union of their targets.
LlmCallSuccessors(msgs) == {tools_condition(msgs), should_summarize(msgs)} \ {END}

\* A variant without the edge from tools back to llm_call.
ToolsSuccessors_none == {}

\* add_edge("tools", "llm_call"); summarize has no outgoing edge.
ToolsSuccessors == {"llm_call"}

SummarizeSuccessors == {}

(***************************************************************************)
(* Inputs.                                                                 *)
(***************************************************************************)
\* The tool calls a response of the tool-bound model may carry, by tool name.
ToolCallChoices ==
    {<<>>, <<"search_tool">>, <<"date_and_time_tool">>,
     <<"search_tool", "search_tool", "date_and_time_tool">>}

\* The results a Tavily search may find: none, or MaxUrls of them.
UrlCounts == {0, MaxUrls}

\* The text a summarization response may carry (the model may return none).
SummaryTexts == {"", "summary"}

\* A thread that has completed k plain turns: k query/response pairs.
PriorMessages(k) ==
    [i \in 1..(2 * k) |-> IF i % 2 = 1 THEN HumanMessage(i) ELSE AIMessage(i, <<>>)]

PriorQuery(k) == [i \in 1..k |-> HumanMessage(2 * i - 1)]

\* tools supersteps completed in the run in flight.
ToolRounds == Cardinality({i \in 1..Len(visits) : "tools" \in visits[i].nodes})

\* A completed superstep: the nodes it ran, the tool calls of the response
\* (llm_call), the messages the tools node returned, and len(messages) after
\* the step's writes were merged.
Visit(nodes, calls, tool_msgs, n) ==
    [nodes |-> nodes, calls |-> calls, tool_msgs |-> tool_msgs, nmsgs |-> n]

(***************************************************************************)
(* The checkpoint database.  The graph is compiled with the manager's      *)
(* checkpointer, which files the State of a thread under its thread_id     *)
(* after every superstep.  The channel variables are the latest checkpoint *)
(* of the thread thread_id; threads holds those of the other threads.      *)
(***************************************************************************)
Channels ==
    [query |-> query, messages |-> messages, answer |-> answer,
     summary |-> summary, runs |-> runs]

\* The State of a thread that has no checkpoint.
EmptyChannels ==
    [query |-> <<>>, messages |-> <<>>, answer |-> 0, summary |-> "", runs |-> 0]

\* Every checkpoint in the database, by thread id.
Checkpoints ==
    IF thread_id = 0 THEN threads ELSE (thread_id :> Channels) @@ threads

\* A variant whose checkpoints live in the memory of the process.
Saver_memory == "InMemorySaver"

\* AsyncPostgresSaver.from_conn_string(DB_URI): the saver the graph is
\* compiled with.
Saver == "AsyncPostgresSaver"

\* What the database holds once the process has gone and a new one started.
CheckpointsAfterRestart(cps) ==
    IF Saver = "AsyncPostgresSaver" THEN cps ELSE <<>>

\* The checkpoint_id a request may carry: 0 (None), the id of a thread that
\* has a checkpoint, the id the first turn ran on or, while the database
\* holds no thread, an id that no thread has (-1).
SuppliedIds ==
    {0, turn.first.thread} \cup DOMAIN Checkpoints
        \cup (IF DOMAIN Checkpoints = {} THEN {-1} ELSE {})

\* A variant that announces the identifier on every stream.
CheckpointEvents_always(is_new_conversation, id) == <<Sse("checkpoint", id)>>

\* `yield` of the checkpoint event, for a new conversation only.
CheckpointEvents(is_new_conversation, id) ==
    IF is_new_conversation THEN <<Sse("checkpoint", id)>> ELSE <<>>

\* What is remembered of the first turn of a behaviour once it is over.
FirstTurn(thread, new, completed, msgs, summarized) ==
    [thread |-> thread, new |-> new, completed |-> completed, messages |-> msgs,
     summarized |-> summarized]

NoTurn ==
    [n |-> 0, checkpoint_id |-> 0, restarted |-> FALSE,
     first |-> FirstTurn(0, FALSE, FALSE, <<>>, FALSE)]

(***************************************************************************)
(* The model requests of llm_call_node.                                    *)
(***************************************************************************)
\* The ways a request to the model endpoint fails: the backend rejects the
\* bound tool schemas, or a downstream error (network, authentication).
ErrorKinds == {"tool_schema", "network"}

\* A request without tools cannot be rejected for its tool schemas.
FallbackErrorKinds == {"network"}

\* inputs = [sys_msg] + msgs_with_summary + [query]
LlmInputs ==
    [sys_msg |-> "user_details", summary_msg |-> summary, messages |-> messages,
     query |-> Last(query)]

\* One ainvoke: with the tools bound or not, its inputs, its error ("": none).
Request(tools, inputs, error) == [tools |-> tools, inputs |-> inputs, error |-> error]

\* A variant that makes the tool-free request twice.
LlmRequests_twice(error, fallback_error, inputs) ==
    IF error = ""
    THEN <<Request(TRUE, inputs, "")>>
    ELSE <<Request(TRUE, inputs, error), Request(FALSE, inputs, fallback_error),
           Request(FALSE, inputs, fallback_error)>>

\* The try/except of llm_call_node: the request of llm_with_tools and, when
\* it raises any Exception, one request of llm_fallback.
LlmRequests(error, fallback_error, inputs) ==
    IF error = ""
    THEN <<Request(TRUE, inputs, "")>>
    ELSE <<Request(TRUE, inputs, error), Request(FALSE, inputs, fallback_error)>>

\* An llm_call_node invocation: its requests, whether an exception left the
\* node, and for a return the response, its content and the messages written.
Invocation(requests, raised, response, content, out_messages) ==
    [requests |-> requests, raised |-> raised, response |-> response,
     content |-> content, out_messages |-> out_messages]

NoInvocation == Invocation(<<>>, FALSE, AIMessage(0, <<>>), 0, <<>>)

(***************************************************************************)
(* The model request of summarization_node.                                *)
(***************************************************************************)
\* summary_msg: summary_prompt with the existing summary, or no_summary_prompt.
SummarizationPrompt ==
    IF summary # ""
    THEN [template |-> "summary_prompt", summary |-> summary]
    ELSE [template |-> "no_summary_prompt", summary |-> ""]

\* A summarization pass: whether the model request succeeded, the prompt it
\* was given, the state before it and the node's writes.
Pass(ok, out) ==
    [ok |-> ok, prompt |-> SummarizationPrompt, prior_summary |-> summary,
     before |-> messages, delta |-> out.messages, summary |-> out.summary]

(***************************************************************************)
(* Init: a GraphManager whose graph is compiled and a thread that is new   *)
(* or has completed some plain turns (PriorTurns); a behaviour of Spec is  *)
(* one turn (one stream, one graph run) on that thread.                    *)
(***************************************************************************)
\* The histories Init draws: a thread without messages, or one within two
\* plain turns of MaxPriorTurns; the thread of MaxPriorTurns turns may carry
\* the summary of an earlier pass.
PriorTurns == {0} \cup {k \in 1..MaxPriorTurns : k >= MaxPriorTurns - 2}

ConvInit(k) ==
        /\ query = PriorQuery(k)
        /\ messages = PriorMessages(k)
        /\ answer = IF k = 0 THEN 0 ELSE 1
        /\ summary \in (IF k = MaxPriorTurns THEN SummaryTexts ELSE {""})
        /\ runs = 0
        /\ thread_id = IF k = 0 THEN 0 ELSE 2 * k + 1
        /\ nextId = 2 * k + 2
        /\ next = {}
        /\ attempts = 0
        /\ visits = <<>>
        /\ pc = "idle"
        /\ sse = <<>>
        /\ events = <<>>
        /\ threads = <<>>
        /\ turn = NoTurn
        /\ invocation = NoInvocation
        /\ passes = <<>>

(***************************************************************************)
(* generate_chat_responses up to its event loop: a new conversation gets a *)
(* fresh thread id and a checkpoint event, a resumed one runs on the       *)
(* supplied id; the input State(query=[HumanMessage]) enters through the   *)
(* reducer and START schedules llm_call.                                   *)
(***************************************************************************)
StartTurn(checkpoint_id) ==
    /\ pc = "idle"
    /\ LET is_new_conversation == checkpoint_id = 0
           new_checkpoint_id == nextId
           config_thread_id == IF is_new_conversation THEN new_checkpoint_id
                               ELSE checkpoint_id
           loaded == IF config_thread_id \in DOMAIN Checkpoints
                     THEN Checkpoints[config_thread_id] ELSE EmptyChannels
           input_id == IF is_new_conversation THEN nextId + 1 ELSE nextId
       IN  /\ thread_id' = config_thread_id
           /\ threads' = [t \in DOMAIN Checkpoints \ {config_thread_id}
                             |-> Checkpoints[t]]
           /\ query' = add_messages(loaded.query, <<HumanMessage(input_id)>>)
           /\ messages' = loaded.messages
           /\ answer' = loaded.answer
           /\ summary' = loaded.summary
           /\ runs' = loaded.runs
           /\ nextId' = input_id + 1
           /\ sse' = CheckpointEvents(is_new_conversation, new_checkpoint_id)
           /\ turn' = [turn EXCEPT !.n = @ + 1, !.checkpoint_id = checkpoint_id]
    /\ next' = {"llm_call"}
    /\ attempts' = 0
    /\ visits' = <<>>
    /\ events' = <<>>
    /\ invocation' = NoInvocation
    /\ passes' = <<>>
    /\ pc' = "running"
    /\ UNCHANGED <<admVars, mgrVars, memVars, strVars, dayVars, readVars>>

\* A variant in which the loop of a run does not see that nothing is
\* scheduled.
AfterStep_never_done(nxt) == "running"

\* The run's position after a superstep that scheduled the nodes nxt.
AfterStep(nxt) == IF nxt = {} THEN "finished" ELSE "running"

(***************************************************************************)
(* A superstep that runs llm_call: the node's State is merged, then both   *)
(* conditional edges are evaluated on the merged state.                    *)
(***************************************************************************)
LlmCallStep ==
    /\ pc = "running"
    /\ next = {"llm_call"}
    /\ \E names \in ToolCallChoices, n \in 0..MaxChunks, error \in {""} \cup ErrorKinds :
        /\ names # <<>> => ToolRounds < MaxToolRounds
        /\ LET response == LlmResponse(error = "", names, nextId)
               out == llm_call_node(response, n)
               merged == add_messages(messages, out.messages)
           IN  /\ invocation' = Invocation(LlmRequests(error, "", LlmInputs), FALSE,
                                           response, n, out.messages)
               /\ query' = add_messages(query, out.query)
               /\ messages' = merged
               /\ answer' = out.answer
               /\ runs' = out.runs
               /\ summary' = out.summary
               /\ nextId' = nextId + 1 + Len(response.tool_calls)
               /\ next' = LlmCallSuccessors(merged)
               /\ pc' = AfterStep(LlmCallSuccessors(merged))
               /\ visits' = Append(visits, Visit({"llm_call"}, response.tool_calls, <<>>, Len(merged)))
               /\ events' = events \o LlmEvents(n, response.tool_calls)
               /\ sse' = sse \o Bridge(LlmEvents(n, response.tool_calls))
    /\ attempts' = 0
    /\ UNCHANGED <<thread_id, threads, turn, passes>>
    /\ UNCHANGED <<admVars, mgrVars, memVars, strVars, dayVars, readVars>>

(***************************************************************************)
(* A superstep that runs tools alone.                                      *)
(***************************************************************************)
ToolsStep ==
    /\ pc = "running"
    /\ next = {"tools"}
    /\ \E urls \in UrlCounts :
        LET out == tool_node(messages, nextId)
            merged == add_messages(messages, out.messages)
        IN  /\ messages' = merged
            /\ nextId' = nextId + Len(out.messages)
            /\ visits' = Append(visits, Visit({"tools"}, <<>>, out.messages, Len(merged)))
            /\ events' = events \o ToolsEvents(Last(messages).tool_calls, urls)
            /\ sse' = sse \o Bridge(ToolsEvents(Last(messages).tool_calls, urls))
    /\ next' = ToolsSuccessors
    /\ pc' = AfterStep(ToolsSuccessors)
    /\ attempts' = 0
    /\ invocation' = NoInvocation
    /\ UNCHANGED <<query, answer, summary, runs, thread_id, threads, turn, passes>>
    /\ UNCHANGED <<admVars, mgrVars, memVars, strVars, dayVars, readVars>>

(***************************************************************************)
(* A superstep that runs summarize alone.                                  *)
(***************************************************************************)
SummarizeStep ==
    /\ pc = "running"
    /\ next = {"summarize"}
    /\ \E ok \in BOOLEAN, text \in SummaryTexts :
        /\ ~ok => text = ""
        /\ LET out == summarization_node(ok, text)
               merged == add_messages(messages, out.messages)
           IN  /\ query' = add_messages(query, out.query)
               /\ messages' = merged
               /\ answer' = out.answer
               /\ runs' = out.runs
               /\ summary' = out.summary
               /\ visits' = Append(visits, Visit({"summarize"}, <<>>, <<>>, Len(merged)))
               /\ events' = events \o SummarizeEvents(ok)
               /\ sse' = sse \o Bridge(SummarizeEvents(ok))
               /\ passes' = Append(passes, Pass(ok, out))
    /\ next' = SummarizeSuccessors
    /\ pc' = AfterStep(SummarizeSuccessors)
    /\ attempts' = 0
    /\ invocation' = NoInvocation
    /\ UNCHANGED <<thread_id, nextId, threads, turn>>
    /\ UNCHANGED <<admVars, mgrVars, memVars, strVars, dayVars, readVars>>

(***************************************************************************)
(* A superstep that runs tools and summarize together: both read the state *)
(* of the previous superstep; the writes are applied in task order         *)
(* (summarize, then tools).                                                *)
(***************************************************************************)
ToolsSummarizeStep ==
    /\ pc = "running"
    /\ next = {"tools", "summarize"}
    /\ \E urls \in UrlCounts, ok \in BOOLEAN, text \in SummaryTexts :
        /\ ~ok => text = ""
        /\ LET s_out == summarization_node(ok, text)
               t_out == tool_node(messages, nextId)
               merged == add_messages(add_messages(messages, s_out.messages),
                                      t_out.messages)
           IN  /\ query' = add_messages(query, s_out.query)
               /\ messages' = merged
               /\ answer' = s_out.answer
               /\ runs' = s_out.runs
               /\ summary' = s_out.summary
               /\ nextId' = nextId + Len(t_out.messages)
               /\ visits' = Append(visits,
                                   Visit({"tools", "summarize"}, <<>>, t_out.messages,
                                         Len(merged)))
               /\ events' = events \o SummarizeEvents(ok)
                                    \o ToolsEvents(Last(messages).tool_calls, urls)
               /\ sse' = sse \o Bridge(SummarizeEvents(ok)
                                       \o ToolsEvents(Last(messages).tool_calls, urls))
               /\ passes' = Append(passes, Pass(ok, s_out))
    /\ next' = ToolsSuccessors \cup SummarizeSuccessors
    /\ pc' = AfterStep(ToolsSuccessors \cup SummarizeSuccessors)
    /\ attempts' = 0
    /\ invocation' = NoInvocation
    /\ UNCHANGED <<thread_id, threads, turn>>
    /\ UNCHANGED <<admVars, mgrVars, memVars, strVars, dayVars, readVars>>

(***************************************************************************)
(* RetryPolicy(max_attempts=MAX_ATTEMPTS): an attempt of llm_call (both    *)
(* model requests failed) or of tools raises; the node is attempted again  *)
(* until MAX_ATTEMPTS attempts have failed or the exception is one the     *)
(* policy does not retry, and then the run fails.  summarization_node      *)
(* catches the failure of its model request itself.                        *)
(***************************************************************************)
\* A variant that allows one attempt more.
Retries_extra(retryable, failed) == retryable /\ failed <= MAX_ATTEMPTS

\* Whether the node is attempted again after its failed-th failed attempt.
Retries(retryable, failed) == retryable /\ failed < MAX_ATTEMPTS

AttemptFails ==
    /\ pc = "running"
    /\ \E node \in next \cap {"llm_call", "tools"}, retryable \in BOOLEAN :
        /\ attempts' = attempts + 1
        /\ pc' = IF Retries(retryable, attempts + 1) THEN "running" ELSE "failed"
        /\ IF node = "llm_call"
           THEN \E error \in ErrorKinds, fallback_error \in FallbackErrorKinds :
                   invocation' = Invocation(LlmRequests(error, fallback_error, LlmInputs),
                                            TRUE, AIMessage(0, <<>>), 0, <<>>)
           ELSE invocation' = NoInvocation
    /\ UNCHANGED <<query, messages, answer, summary, runs, thread_id, next,
                   visits, sse, events, nextId, threads, turn, passes>>
    /\ UNCHANGED <<admVars, mgrVars, memVars, strVars, dayVars, readVars>>

(***************************************************************************)
(* generate_chat_responses after its event loop: the end event, or the     *)
(* exception of a failed run leaving the generator.                        *)
(***************************************************************************)
EmitEnd ==
    /\ pc = "finished"
    /\ sse' = Append(sse, Sse("end", 0))
    /\ pc' = "closed"
    /\ invocation' = NoInvocation
    /\ UNCHANGED <<query, messages, answer, summary, runs, thread_id, next,
                   attempts, visits, events, nextId, threads, turn, passes>>
    /\ UNCHANGED <<admVars, mgrVars, memVars, strVars, dayVars, readVars>>

RunFailurePropagates ==
    /\ pc = "failed"
    /\ pc' = "raised"
    /\ invocation' = NoInvocation
    /\ UNCHANGED <<query, messages, answer, summary, runs, thread_id, next,
                   attempts, visits, sse, events, nextId, threads, turn, passes>>
    /\ UNCHANGED <<admVars, mgrVars, memVars, strVars, dayVars, readVars>>

(***************************************************************************)
(* Between two turns of a conversation: the client sends its next request  *)
(* to the same process, or the process is stopped and a new one (with a    *)
(* new GraphManager, whose checkpointer is opened on the same database)    *)
(* serves the next request.                                                *)
(***************************************************************************)
\* A successful summarization pass ran in the run that is over.
Summarized == \E i \in 1..Len(passes) : passes[i].ok

\* turn once the stream of the turn is over.
TurnOver ==
    IF turn.n = 1
    THEN [turn EXCEPT !.first = FirstTurn(thread_id, turn.checkpoint_id = 0,
                                          pc = "closed", messages, Summarized)]
    ELSE turn

NextRequest ==
    /\ pc \in {"closed", "raised"}
    /\ turn.n < MaxTurns
    /\ pc' = "idle"
    /\ turn' = TurnOver
    /\ UNCHANGED <<query, messages, answer, summary, runs, thread_id, next,
                   attempts, visits, sse, events, nextId, threads, invocation, passes>>
    /\ UNCHANGED <<admVars, mgrVars, memVars, strVars, dayVars, readVars>>

ProcessRestarts ==
    /\ pc \in {"closed", "raised"}
    /\ turn.n < MaxTurns
    /\ ~turn.restarted
    /\ threads' = CheckpointsAfterRestart(Checkpoints)
    /\ thread_id' = 0
    /\ query' = EmptyChannels.query
    /\ messages' = EmptyChannels.messages
    /\ answer' = EmptyChannels.answer
    /\ summary' = EmptyChannels.summary
    /\ runs' = EmptyChannels.runs
    /\ pc' = "idle"
    /\ turn' = [TurnOver EXCEPT !.restarted = TRUE]
    /\ UNCHANGED <<next, attempts, visits, sse, events, nextId, invocation, passes>>
    /\ UNCHANGED <<admVars, mgrVars, memVars, strVars, dayVars, readVars>>

(***************************************************************************)
(* Admission control of /chat_stream.  Every await on the Redis client is  *)
(* a step of its own; a command succeeds when Redis is reachable at that   *)
(* step and raises otherwise.  A body under _concurrent_lock has no await  *)
(* and is one step.                                                        *)
(***************************************************************************)
Requests == 1..NumRequests

Max(a, b) == IF a > b THEN a ELSE b

\* A request: its position (pc), the counter that admitted it (via) and, as
\* history, the counters its stream's end decremented (decs) and the
\* counters check_concurrent_limit incremented for it and did not decrement
\* again (incs).
AdmInit(up) ==
    /\ redis_count = 0
    /\ redis_up = up
    /\ redis_outage = ~up
    /\ ttl_set = FALSE
    /\ concurrent_counter = 0
    /\ req = [r \in Requests |-> [pc |-> "idle", via |-> "none", decs |-> <<>>,
                                  incs |-> {}]]

\* check_concurrent_limit, `current = await redis_client.incr(KEY)`.
\* (Requests are interchangeable: they arrive in the order of their index.)
CheckIncr(r) ==
    /\ req[r].pc = "idle"
    /\ \A q \in Requests : q < r => req[q].pc # "idle"
    /\ IF redis_up
       THEN /\ redis_count' = redis_count + 1
            /\ req' = [req EXCEPT ![r].pc = IF redis_count + 1 > MAX_CONCURRENT
                                            THEN "over" ELSE "streaming",
                                  ![r].via = IF redis_count + 1 > MAX_CONCURRENT
                                             THEN "none" ELSE "redis",
                                  ![r].incs = {"redis"}]
       ELSE /\ req' = [req EXCEPT ![r].pc = "fallback"]
            /\ UNCHANGED redis_count
    /\ UNCHANGED <<redis_up, redis_outage, ttl_set, concurrent_counter>>
    /\ UNCHANGED <<convVars, mgrVars, memVars, strVars, dayVars, readVars>>

\* check_concurrent_limit, current > MAX_CONCURRENT: `await redis_client.decr(KEY)`
\* and `raise HTTPException(429)`, inside the try whose handler is
\* `except Exception`: the HTTPException, like a Redis error, enters the handler.
CheckDecrOver(r) ==
    /\ req[r].pc = "over"
    /\ redis_count' = IF redis_up THEN redis_count - 1 ELSE redis_count
    /\ req' = [req EXCEPT ![r].pc = "fallback",
                          ![r].incs = IF redis_up THEN {} ELSE @]
    /\ UNCHANGED <<redis_up, redis_outage, ttl_set, concurrent_counter>>
    /\ UNCHANGED <<convVars, mgrVars, memVars, strVars, dayVars, readVars>>

\* check_concurrent_limit, the handler: the in-memory counter under the lock.
CheckFallback(r) ==
    /\ req[r].pc = "fallback"
    /\ IF concurrent_counter + 1 > MAX_CONCURRENT
       THEN /\ req' = [req EXCEPT ![r].pc = "rejected"]
            /\ UNCHANGED concurrent_counter
       ELSE /\ req' = [req EXCEPT ![r].pc = "streaming", ![r].via = "memory",
                                  ![r].incs = @ \cup {"memory"}]
            /\ concurrent_counter' = concurrent_counter + 1
    /\ UNCHANGED <<redis_count, redis_up, redis_outage, ttl_set>>
    /\ UNCHANGED <<convVars, mgrVars, memVars, strVars, dayVars, readVars>>

\* event_generator leaves its try block and its finally clause runs next:
\* generate_chat_responses is exhausted, ...
StreamCompletes(r) ==
    /\ req[r].pc = "streaming"
    /\ req' = [req EXCEPT ![r].pc = "finally"]
    /\ UNCHANGED <<redis_count, redis_up, redis_outage, ttl_set, concurrent_counter>>
    /\ UNCHANGED <<convVars, mgrVars, memVars, strVars, dayVars, readVars>>

\* ... or the graph run raises through generate_chat_responses, ...
GraphRunRaises(r) ==
    /\ req[r].pc = "streaming"
    /\ req' = [req EXCEPT ![r].pc = "finally"]
    /\ UNCHANGED <<redis_count, redis_up, redis_outage, ttl_set, concurrent_counter>>
    /\ UNCHANGED <<convVars, mgrVars, memVars, strVars, dayVars, readVars>>

\* ... or request.is_disconnected() answers true and the loop breaks (also
\* before the first chunk was forwarded).
ClientDisconnects(r) ==
    /\ req[r].pc = "streaming"
    /\ req' = [req EXCEPT ![r].pc = "finally"]
    /\ UNCHANGED <<redis_count, redis_up, redis_outage, ttl_set, concurrent_counter>>
    /\ UNCHANGED <<convVars, mgrVars, memVars, strVars, dayVars, readVars>>

\* decrement_concurrent_count, `await redis_client.decr(KEY)`.
DecrementDecr(r) ==
    /\ req[r].pc = "finally"
    /\ IF redis_up
       THEN /\ redis_count' = redis_count - 1
            /\ req' = [req EXCEPT ![r].pc = "expire", ![r].decs = Append(@, "redis")]
       ELSE /\ req' = [req EXCEPT ![r].pc = "dec_fallback"]
            /\ UNCHANGED redis_count
    /\ UNCHANGED <<redis_up, redis_outage, ttl_set, concurrent_counter>>
    /\ UNCHANGED <<convVars, mgrVars, memVars, strVars, dayVars, readVars>>

\* decrement_concurrent_count, `await redis_client.expire(KEY, TTL)`.
DecrementExpire(r) ==
    /\ req[r].pc = "expire"
    /\ IF redis_up
       THEN /\ ttl_set' = TRUE
            /\ req' = [req EXCEPT ![r].pc = "ended"]
       ELSE /\ req' = [req EXCEPT ![r].pc = "dec_fallback"]
            /\ UNCHANGED ttl_set
    /\ UNCHANGED <<redis_count, redis_up, redis_outage, concurrent_counter>>
    /\ UNCHANGED <<convVars, mgrVars, memVars, strVars, dayVars, readVars>>

\* decrement_concurrent_count, the handler: max(0, _concurrent_counter - 1).
DecrementFallback(r) ==
    /\ req[r].pc = "dec_fallback"
    /\ concurrent_counter' = Max(0, concurrent_counter - 1)
    /\ req' = [req EXCEPT ![r].pc = "ended", ![r].decs = Append(@, "memory")]
    /\ UNCHANGED <<redis_count, redis_up, redis_outage, ttl_set>>
    /\ UNCHANGED <<convVars, mgrVars, memVars, strVars, dayVars, readVars>>

\* Redis becomes unreachable, or reachable again.
RedisAvailabilityChanges ==
    /\ redis_up' = ~redis_up
    /\ redis_outage' = TRUE
    /\ UNCHANGED <<redis_count, ttl_set, concurrent_counter, req>>
    /\ UNCHANGED <<convVars, mgrVars, memVars, strVars, dayVars, readVars>>

\* The time to live set by expire elapses: Redis deletes the key.
KeyExpires ==
    /\ ttl_set
    /\ redis_count' = 0
    /\ ttl_set' = FALSE
    /\ UNCHANGED <<redis_up, redis_outage, concurrent_counter, req>>
    /\ UNCHANGED <<convVars, mgrVars, memVars, strVars, dayVars, readVars>>

AdmNext ==
    \/ \E r \in Requests : CheckIncr(r)
    \/ \E r \in Requests : CheckDecrOver(r)
    \/ \E r \in Requests : CheckFallback(r)
    \/ \E r \in Requests : StreamCompletes(r)
    \/ \E r \in Requests : GraphRunRaises(r)
    \/ \E r \in Requests : ClientDisconnects(r)
    \/ \E r \in Requests : DecrementDecr(r)
    \/ \E r \in Requests : DecrementExpire(r)
    \/ \E r \in Requests : DecrementFallback(r)
    \/ RedisAvailabilityChanges
    \/ KeyExpires

(***************************************************************************)
(* limit_concurrent_streams, the context manager of rate_limit.py, on the  *)
(* same counters.  A request here is a holder: a task that enters the      *)
(* context, runs its body and leaves.  The generator is driven by          *)
(* contextlib.asynccontextmanager: __aenter__ runs it to its first yield,  *)
(* __aexit__ resumes it (or throws the body's exception into it) and       *)
(* raises RuntimeError when it yields once more.  The exceptions of the    *)
(* body are subclasses of Exception.                                       *)
(***************************************************************************)
\* __aenter__: the increment and the test of `current`.  The in-memory
\* branch has no await: over the limit it counts up and down again, raises
\* HTTPException(429) into the outer `except Exception` and arrives at that
\* handler's yield.
LimitIncr(r) ==
    /\ req[r].pc = "idle"
    /\ \A q \in Requests : q < r => req[q].pc # "idle"
    /\ IF redis_up
       THEN /\ redis_count' = redis_count + 1
            /\ req' = [req EXCEPT ![r].pc = IF redis_count + 1 > MAX_CONCURRENT
                                            THEN "over" ELSE "body",
                                  ![r].via = IF redis_count + 1 > MAX_CONCURRENT
                                             THEN "none" ELSE "redis",
                                  ![r].incs = {"redis"}]
            /\ UNCHANGED concurrent_counter
       ELSE /\ IF concurrent_counter + 1 > MAX_CONCURRENT
               THEN /\ req' = [req EXCEPT ![r].pc = "open"]
                    /\ UNCHANGED concurrent_counter
               ELSE /\ req' = [req EXCEPT ![r].pc = "body", ![r].via = "memory",
                                          ![r].incs = {"memory"}]
                    /\ concurrent_counter' = concurrent_counter + 1
            /\ UNCHANGED redis_count
    /\ UNCHANGED <<redis_up, redis_outage, ttl_set>>
    /\ UNCHANGED <<convVars, mgrVars, memVars, strVars, dayVars, readVars>>

\* current > MAX_CONCURRENT with Redis: `await redis_client.decr(KEY)`, then
\* `raise HTTPException(429)`; that exception, or the error of decr, is
\* caught by the outer `except Exception`, whose yield lets the body run.
LimitDecrOver(r) ==
    /\ req[r].pc = "over"
    /\ redis_count' = IF redis_up THEN redis_count - 1 ELSE redis_count
    /\ req' = [req EXCEPT ![r].pc = "open",
                          ![r].incs = IF redis_up THEN {} ELSE @]
    /\ UNCHANGED <<redis_up, redis_outage, ttl_set, concurrent_counter>>
    /\ UNCHANGED <<convVars, mgrVars, memVars, strVars, dayVars, readVars>>

\* The body returns: __aexit__ resumes the generator, at the inner yield
\* (the finally clause follows) or at the handler's yield (it ends).
BodyReturns(r) ==
    /\ req[r].pc \in {"body", "open"}
    /\ req' = [req EXCEPT ![r].pc = IF req[r].pc = "body"
                                    THEN "finally_return" ELSE "returned"]
    /\ UNCHANGED <<redis_count, redis_up, redis_outage, ttl_set, concurrent_counter>>
    /\ UNCHANGED <<convVars, mgrVars, memVars, strVars, dayVars, readVars>>

\* The body raises: __aexit__ throws the exception in at the yield.  From
\* the handler's yield it leaves the generator as it is.
BodyRaises(r) ==
    /\ req[r].pc \in {"body", "open"}
    /\ req' = [req EXCEPT ![r].pc = IF req[r].pc = "body"
                                    THEN "finally_raise" ELSE "raised"]
    /\ UNCHANGED <<redis_count, redis_up, redis_outage, ttl_set, concurrent_counter>>
    /\ UNCHANGED <<convVars, mgrVars, memVars, strVars, dayVars, readVars>>

\* Where the generator goes after its finally clause: to its end when the
\* body returned and the clause raised nothing; otherwise an exception is
\* on its way out, the outer `except Exception` catches it and yields a
\* second time, and __aexit__ raises RuntimeError.
AfterFinally(position, clause_raised) ==
    IF position \in {"finally_return", "expire_return"} /\ ~clause_raised
    THEN "returned" ELSE "runtime_error"

\* The finally clause: `await redis_client.decr(KEY)`, or the in-memory
\* counter under the lock.
LimitDecr(r) ==
    /\ req[r].pc \in {"finally_return", "finally_raise"}
    /\ IF req[r].via = "memory"
       THEN /\ concurrent_counter' = concurrent_counter - 1
            /\ req' = [req EXCEPT ![r].pc = AfterFinally(req[r].pc, FALSE),
                                  ![r].decs = Append(@, "memory")]
            /\ UNCHANGED redis_count
       ELSE IF redis_up
       THEN /\ redis_count' = redis_count - 1
            /\ req' = [req EXCEPT ![r].pc = IF req[r].pc = "finally_return"
                                            THEN "expire_return" ELSE "expire_raise",
                                  ![r].decs = Append(@, "redis")]
            /\ UNCHANGED concurrent_counter
       ELSE /\ req' = [req EXCEPT ![r].pc = AfterFinally(req[r].pc, TRUE)]
            /\ UNCHANGED <<redis_count, concurrent_counter>>
    /\ UNCHANGED <<redis_up, redis_outage, ttl_set>>
    /\ UNCHANGED <<convVars, mgrVars, memVars, strVars, dayVars, readVars>>

\* The finally clause: `await redis_client.expire(KEY, TTL)`.
LimitExpire(r) ==
    /\ req[r].pc \in {"expire_return", "expire_raise"}
    /\ ttl_set' = (ttl_set \/ redis_up)
    /\ req' = [req EXCEPT ![r].pc = AfterFinally(req[r].pc, ~redis_up)]
    /\ UNCHANGED <<redis_count, redis_up, redis_outage, concurrent_counter>>
    /\ UNCHANGED <<convVars, mgrVars, memVars, strVars, dayVars, readVars>>

LimiterNext ==
    \/ \E r \in Requests : LimitIncr(r)
    \/ \E r \in Requests : LimitDecrOver(r)
    \/ \E r \in Requests : BodyReturns(r)
    \/ \E r \in Requests : BodyRaises(r)
    \/ \E r \in Requests : LimitDecr(r)
    \/ \E r \in Requests : LimitExpire(r)
    \/ RedisAvailabilityChanges
    \/ KeyExpires

(***************************************************************************)
(* GraphManager.  The awaits of initialize_checkpointer (__aenter__,       *)
(* setup) and of cleanup_checkpointer (__aexit__) are the suspension       *)
(* points; the code between two of them is one step.                       *)
(***************************************************************************)
Tasks == 1..NumTasks


\* builder.compile(checkpointer=self.checkpointer): the graph, identified by
\* its compile number, and the checkpointer it is bound to.
CompiledGraph(n, cp) == [id |-> n, checkpointer |-> cp]

\* graph_instance = None.
NoGraph == CompiledGraph(0, 0)

MgrInit ==
    /\ checkpointer = 0
    /\ checkpointer_context = 0
    /\ graph_instance = NoGraph
    /\ opened = {}
    /\ closed = {}
    /\ compiled = 0
    /\ nextCtx = 1
    /\ task = [t \in Tasks |-> [pc |-> "idle", call |-> "none", ctx |-> 0, result |-> 0]]
    /\ shutdown = "no"

\* build_graph from its entry to its return or to the first await of
\* initialize_checkpointer.
BuildGraphEnter(t) ==
    /\ task[t].pc = "idle"
    /\ IF graph_instance # NoGraph
       THEN /\ task' = [task EXCEPT ![t].pc = "returned", ![t].call = "build_graph",
                                    ![t].result = graph_instance.id]
            /\ UNCHANGED <<checkpointer_context, graph_instance, compiled, nextCtx>>
       ELSE IF checkpointer = 0
       THEN /\ checkpointer_context' = nextCtx
            /\ nextCtx' = nextCtx + 1
            /\ task' = [task EXCEPT ![t].pc = "aenter", ![t].call = "build_graph",
                                    ![t].ctx = nextCtx]
            /\ UNCHANGED <<graph_instance, compiled>>
       ELSE /\ graph_instance' = CompiledGraph(compiled + 1, checkpointer)
            /\ compiled' = compiled + 1
            /\ task' = [task EXCEPT ![t].pc = "returned", ![t].call = "build_graph",
                                    ![t].result = compiled + 1]
            /\ UNCHANGED <<checkpointer_context, nextCtx>>
    /\ UNCHANGED <<checkpointer, opened, closed, shutdown>>
    /\ UNCHANGED <<convVars, admVars, memVars, strVars, dayVars, readVars>>

\* initialize_checkpointer called on its own (the application's lifespan).
InitializeCheckpointerEnter(t) ==
    /\ task[t].pc = "idle"
    /\ IF checkpointer = 0
       THEN /\ checkpointer_context' = nextCtx
            /\ nextCtx' = nextCtx + 1
            /\ task' = [task EXCEPT ![t].pc = "aenter",
                                    ![t].call = "initialize_checkpointer",
                                    ![t].ctx = nextCtx]
       ELSE /\ task' = [task EXCEPT ![t].pc = "returned",
                                    ![t].call = "initialize_checkpointer"]
            /\ UNCHANGED <<checkpointer_context, nextCtx>>
    /\ UNCHANGED <<checkpointer, graph_instance, opened, closed, compiled, shutdown>>
    /\ UNCHANGED <<convVars, admVars, memVars, strVars, dayVars, readVars>>

\* `self.checkpointer = await self.checkpointer_context.__aenter__()` resumes:
\* the context the task created is open and its saver is stored.
AEnterReturns(t) ==
    /\ task[t].pc = "aenter"
    /\ opened' = opened \cup {task[t].ctx}
    /\ checkpointer' = task[t].ctx
    /\ task' = [task EXCEPT ![t].pc = "setup"]
    /\ UNCHANGED <<checkpointer_context, graph_instance, closed, compiled, nextCtx,
                   shutdown>>
    /\ UNCHANGED <<convVars, admVars, memVars, strVars, dayVars, readVars>>

\* `await self.checkpointer.setup()` resumes; build_graph then builds and
\* compiles the graph with the checkpointer the manager holds at that time.
SetupReturns(t) ==
    /\ task[t].pc = "setup"
    /\ IF task[t].call = "build_graph"
       THEN /\ graph_instance' = CompiledGraph(compiled + 1, checkpointer)
            /\ compiled' = compiled + 1
            /\ task' = [task EXCEPT ![t].pc = "returned", ![t].result = compiled + 1]
       ELSE /\ task' = [task EXCEPT ![t].pc = "returned"]
            /\ UNCHANGED <<graph_instance, compiled>>
    /\ UNCHANGED <<checkpointer, checkpointer_context, opened, closed, nextCtx, shutdown>>
    /\ UNCHANGED <<convVars, admVars, memVars, strVars, dayVars, readVars>>

\* cleanup_checkpointer up to `await self.checkpointer_context.__aexit__(...)`.
CleanupEnter ==
    /\ shutdown = "no"
    /\ IF checkpointer_context # 0 /\ checkpointer # 0
       THEN /\ closed' = closed \cup {checkpointer_context}
            /\ shutdown' = "aexit"
       ELSE /\ shutdown' = "done"
            /\ UNCHANGED closed
    /\ UNCHANGED <<checkpointer, checkpointer_context, graph_instance, opened,
                   compiled, nextCtx, task>>
    /\ UNCHANGED <<convVars, admVars, memVars, strVars, dayVars, readVars>>

\* cleanup_checkpointer, the finally clause.
CleanupFinally ==
    /\ shutdown = "aexit"
    /\ checkpointer' = 0
    /\ checkpointer_context' = 0
    /\ shutdown' = "done"
    /\ UNCHANGED <<graph_instance, opened, closed, compiled, nextCtx, task>>
    /\ UNCHANGED <<convVars, admVars, memVars, strVars, dayVars, readVars>>

MgrNext ==
    \/ \E t \in Tasks : BuildGraphEnter(t)
    \/ \E t \in Tasks : InitializeCheckpointerEnter(t)
    \/ \E t \in Tasks : AEnterReturns(t)
    \/ \E t \in Tasks : SetupReturns(t)
    \/ CleanupEnter
    \/ CleanupFinally

(***************************************************************************)
(* Long-term memory records and append_memory.  A record is a dict; the    *)
(* model gives it one field of each kind the merge tells apart: a list     *)
(* field (every field of StructuredMemoryResponse is one), a dict field    *)
(* and a scalar field.  A field holds a value of its kind, holds None, or  *)
(* is not a key of the dict.  A list is a sequence of strings, a dict a    *)
(* set of <<key, value>> pairs with one pair per key.                      *)
(***************************************************************************)
MemoryValue(kind, str, list, dict) == [kind |-> kind, str |-> str, list |-> list, dict |-> dict]

\* The field is not a key of the dict.
NoKey == MemoryValue("absent", "", <<>>, {})

None == MemoryValue("None", "", <<>>, {})

Str(s) == MemoryValue("str", s, <<>>, {})

List(l) == MemoryValue("list", "", l, {})

Dict(d) == MemoryValue("dict", "", <<>>, d)

MemoryFields == {"interests", "preferences", "timezone"}

MemoryKeys(record) == {f \in MemoryFields : record[f].kind # "absent"}

\* list(dict.fromkeys(s)): the first occurrence of every element, in order.
Dedupe(s) ==
    LET kept[i \in 0..Len(s)] ==
            IF i = 0 THEN <<>>
            ELSE IF \E j \in 1..Len(kept[i - 1]) : kept[i - 1][j] = s[i]
                 THEN kept[i - 1]
                 ELSE Append(kept[i - 1], s[i])
    IN kept[Len(s)]

\* {**existing_value, **new_value}
MergeDicts(existing_value, new_value) ==
    {p \in existing_value : \A q \in new_value : q[1] # p[1]} \cup new_value

\* A variant that stores the new list in place of the combined one.
MergeLists_overwrite(existing_value, new_value) == new_value

\* `existing_value + new_value` without its duplicates.
MergeLists(existing_value, new_value) == Dedupe(existing_value \o new_value)

\* `new_value is None or new_value == "" or new_value == []`
IsEmptyValue(new_value) ==
    new_value.kind = "None" \/ new_value = Str("") \/ new_value = List(<<>>)

\* One pass of the loop over new.items() (a field that is no key of new is
\* not visited): the value of result[key] after it.
MergeValue(existing_value, new_value) ==
    IF new_value.kind = "absent" \/ IsEmptyValue(new_value) THEN existing_value
    ELSE IF existing_value.kind \in {"absent", "None"} THEN new_value
    ELSE IF new_value.kind = "list"
         THEN List(MergeLists(existing_value.list, new_value.list))
    ELSE IF new_value.kind = "dict"
         THEN Dict(MergeDicts(existing_value.dict, new_value.dict))
    ELSE new_value

\* What a call leaves: the dict returned and the dict that was passed as
\* `existing` (result is a copy; no statement writes through to existing).
Merged(result, existing) == [result |-> result, existing |-> existing]

append_memory(existing, new) ==
    Merged([f \in MemoryFields |-> MergeValue(existing[f], new[f])], existing)

\* Inputs: lists of up to MaxListLen strings, dicts over two keys, strings.
ListValues == UNION {[1..n -> {"a", "b"}] : n \in 0..MaxListLen}

DictValues == {{<<"p", 1>>}, {<<"p", 2>>, <<"q", 1>>}}

StrValues == {"", "x"}

FieldValues(f) ==
    {NoKey, None} \cup
    (CASE f = "interests" -> {List(l) : l \in ListValues}
       [] f = "preferences" -> {Dict(d) : d \in DictValues}
       [] f = "timezone" -> {Str(s) : s \in StrValues})

MemoryRecords == {r \in [MemoryFields -> UNION {FieldValues(f) : f \in MemoryFields}] :
                     \A f \in MemoryFields : r[f] \in FieldValues(f)}

EmptyRecord == [f \in MemoryFields |-> NoKey]

\* No merge is under way.
MemIdle ==
    /\ existing_memory = EmptyRecord
    /\ new_memory = EmptyRecord
    /\ updated_memory = <<>>
    /\ memory_before = EmptyRecord

MemInit ==
    /\ existing_memory \in MemoryRecords
    /\ new_memory \in MemoryRecords
    /\ updated_memory = <<>>
    /\ memory_before = existing_memory

\* updated_memory = append_memory(existing_memory, new_memory)
AppendMemory ==
    /\ updated_memory = <<>>
    /\ LET call == append_memory(existing_memory, new_memory)
       IN /\ updated_memory' = <<call.result>>
          /\ existing_memory' = call.existing
    /\ UNCHANGED <<new_memory, memory_before>>
    /\ UNCHANGED <<convVars, admVars, mgrVars, strVars, dayVars, readVars>>

\* The same payload merged into the record that the last merge returned.
AppendMemoryAgain ==
    /\ Len(updated_memory) = 1
    /\ updated_memory' =
           Append(updated_memory, append_memory(Last(updated_memory), new_memory).result)
    /\ UNCHANGED <<existing_memory, new_memory, memory_before>>
    /\ UNCHANGED <<convVars, admVars, mgrVars, strVars, dayVars, readVars>>

MemNext ==
    \/ AppendMemory
    \/ AppendMemoryAgain

(***************************************************************************)
(* event_generator of chat_stream: it takes the events of                  *)
(* generate_chat_responses one by one, asks request.is_disconnected() and  *)
(* yields the event to the client or leaves the loop.  The graph runs in a *)
(* task of its own (astream_events), so its supersteps go on whether or    *)
(* not their events have been taken.  Once the loop is left nobody         *)
(* iterates generate_chat_responses any more: it is closed when it is      *)
(* finalized, which cancels the run where it stands; until then the run    *)
(* may complete further supersteps, whose events reach no one.             *)
(***************************************************************************)
EventGenerator(position, taken) == [pc |-> position, taken |-> taken]

\* One pass of the `async for chunk` loop.
TakeChunk ==
    /\ event_generator.pc = "iterating"
    /\ event_generator.taken < Len(sse)
    /\ IF connected
       THEN /\ forwarded' = Append(forwarded, sse[event_generator.taken + 1])
            /\ event_generator' = EventGenerator("iterating", event_generator.taken + 1)
       ELSE /\ forwarded' = forwarded
            /\ event_generator' = EventGenerator("broke", event_generator.taken + 1)
    /\ UNCHANGED <<connected, cache, chat_history>>
    /\ UNCHANGED <<convVars, admVars, mgrVars, memVars, dayVars, readVars>>

\* The client goes away: is_disconnected() answers True from now on.
ClientGoesAway ==
    /\ pc # "idle"
    /\ event_generator.pc = "iterating"
    /\ connected
    /\ connected' = FALSE
    /\ UNCHANGED <<event_generator, forwarded, cache, chat_history>>
    /\ UNCHANGED <<convVars, admVars, mgrVars, memVars, dayVars, readVars>>

\* generate_chat_responses has returned or raised and all its events are
\* taken: the loop ends.
GeneratorExhausted ==
    /\ event_generator.pc = "iterating"
    /\ pc \in {"closed", "raised"}
    /\ event_generator.taken = Len(sse)
    /\ event_generator' = EventGenerator("exhausted", event_generator.taken)
    /\ UNCHANGED <<connected, forwarded, cache, chat_history>>
    /\ UNCHANGED <<convVars, admVars, mgrVars, memVars, dayVars, readVars>>

\* The abandoned generator is closed and the task of the run cancelled: no
\* superstep completes any more; the checkpoints written stay.
RunCancelled ==
    /\ event_generator.pc = "broke"
    /\ pc \in {"running", "finished", "failed"}
    /\ pc' = "cancelled"
    /\ invocation' = NoInvocation
    /\ UNCHANGED <<query, messages, answer, summary, runs, thread_id, next,
                   attempts, visits, sse, events, nextId, threads, turn, passes>>
    /\ UNCHANGED <<connected, event_generator, forwarded, cache, chat_history>>
    /\ UNCHANGED <<admVars, mgrVars, memVars, dayVars, readVars>>

(***************************************************************************)
(* GET /chat_history.  The route function is wrapped by                    *)
(* cached(ttl=600, key_prefix="chat_history"): the key is made of the path *)
(* and the query parameters, that is of checkpoint_id.                     *)
(***************************************************************************)
Response(status_code, msgs, count) ==
    [status_code |-> status_code, messages |-> msgs, message_count |-> count]

\* {"role": msg_type, "content": msg.content}; a message's content is
\* identified with the message.
FormattedMessage(msg) == [role |-> msg.type, content |-> msg.id]

\* state.values.get("messages") of graph.aget_state for the thread.
StoredMessages(checkpoint_id) ==
    IF checkpoint_id \in DOMAIN Checkpoints
    THEN Checkpoints[checkpoint_id].messages ELSE <<>>

\* The body of the route function.
get_chat_history(checkpoint_id) ==
    LET stored == StoredMessages(checkpoint_id)
        formatted_messages == [i \in 1..Len(stored) |-> FormattedMessage(stored[i])]
    IN  IF stored = <<>>
        THEN Response(404, <<>>, 0)
        ELSE Response(200, formatted_messages, Len(formatted_messages))

\* wrapper of cached: the response and the cache it leaves.  The
\* HTTPException of a 404 leaves the wrapper before cache.set.
Served(response, entries) == [response |-> response, cache |-> entries]

cached(checkpoint_id) ==
    IF checkpoint_id \in DOMAIN cache
    THEN Served(cache[checkpoint_id], cache)
    ELSE LET response == get_chat_history(checkpoint_id)
         IN  Served(response,
                    IF response.status_code = 200
                    THEN (checkpoint_id :> response) @@ cache ELSE cache)

\* What is remembered of the latest chat_history request: its number, its
\* checkpoint_id, the response, the messages the checkpoint held, whether
\* the stream of the turn had been left on a disconnection and whether the
\* turn had completed.
Lookup(n, checkpoint_id, response, stored, after_disconnect, turn_completed) ==
    [n |-> n, checkpoint_id |-> checkpoint_id, response |-> response,
     stored |-> stored, after_disconnect |-> after_disconnect,
     turn_completed |-> turn_completed]

NoLookup == Lookup(0, 0, Response(0, <<>>, 0), <<>>, FALSE, FALSE)

ChatHistoryRequest(checkpoint_id) ==
    /\ chat_history.n < MaxLookups
    /\ chat_history' = Lookup(chat_history.n + 1, checkpoint_id,
                              cached(checkpoint_id).response,
                              StoredMessages(checkpoint_id),
                              event_generator.pc = "broke",
                              pc = "closed" /\ checkpoint_id = thread_id)
    /\ cache' = cached(checkpoint_id).cache
    /\ UNCHANGED <<connected, event_generator, forwarded>>
    /\ UNCHANGED <<convVars, admVars, mgrVars, memVars, dayVars, readVars>>

\* ttl: an entry of the cache expires.
CacheExpires(checkpoint_id) ==
    /\ checkpoint_id \in DOMAIN cache
    /\ cache' = [id \in DOMAIN cache \ {checkpoint_id} |-> cache[id]]
    /\ UNCHANGED <<connected, event_generator, forwarded, chat_history>>
    /\ UNCHANGED <<convVars, admVars, mgrVars, memVars, dayVars, readVars>>

\* No stream is consumed and no history is asked for.
StrIdle ==
    /\ connected = TRUE
    /\ event_generator = EventGenerator("iterating", 0)
    /\ forwarded = <<>>
    /\ cache = <<>>
    /\ chat_history = NoLookup

StreamNext ==
    \/ \E checkpoint_id \in SuppliedIds : StartTurn(checkpoint_id)
    \/ LlmCallStep
    \/ ToolsStep
    \/ SummarizeStep
    \/ ToolsSummarizeStep
    \/ AttemptFails
    \/ EmitEnd /\ event_generator.pc = "iterating"
    \/ RunFailurePropagates /\ event_generator.pc = "iterating"
    \/ TakeChunk
    \/ ClientGoesAway
    \/ GeneratorExhausted
    \/ RunCancelled
    \/ /\ pc = "idle" \/ event_generator.pc # "iterating"
       /\ \E checkpoint_id \in SuppliedIds \ {0} : ChatHistoryRequest(checkpoint_id)
    \/ \E checkpoint_id \in DOMAIN cache : CacheExpires(checkpoint_id)

(***************************************************************************)
(* day_name_tool (logic/tools.py).  The checks of the function come first, *)
(* then calendar.weekday, which maps a year past datetime.MAXYEAR into the *)
(* 400-year cycle and builds datetime.date(year, month, day): that raises  *)
(* ValueError for a day the month does not have, and its weekday() is the  *)
(* proleptic Gregorian ordinal of the date plus 6, modulo 7 (Monday: 0).   *)
(***************************************************************************)

\* calendar.day_name, by the number calendar.weekday returns.
DayNames ==
    <<"Monday", "Tuesday", "Wednesday", "Thursday", "Friday", "Saturday", "Sunday">>

IsLeap(year) == year % 4 = 0 /\ (year % 100 # 0 \/ year % 400 = 0)

DaysInMonth(year, month) ==
    IF month = 2 THEN (IF IsLeap(year) THEN 29 ELSE 28)
    ELSE IF month \in {4, 6, 9, 11} THEN 30
    ELSE 31

\* The days of the year ahead of the first of the month.
RECURSIVE DaysBeforeMonth(_, _)
DaysBeforeMonth(year, month) ==
    IF month <= 1 THEN 0
    ELSE DaysBeforeMonth(year, month - 1) + DaysInMonth(year, month - 1)

\* The days ahead of the first of January of the year, from 1 January of year 1.
DaysBeforeYear(year) ==
    LET y == year - 1
    IN  y * 365 + (y \div 4) - (y \div 100) + (y \div 400)

\* date.toordinal(): 1 January of year 1 is day 1.
Ordinal(year, month, day) ==
    DaysBeforeYear(year) + DaysBeforeMonth(year, month) + day

\* The outcome of a call: a name returned, or a ValueError raised with a text.
Returned(name) == [pc |-> "returned", value |-> name, error |-> ""]

Raised(text) == [pc |-> "raised", value |-> "", error |-> text]

Pending == [pc |-> "called", value |-> "", error |-> ""]

\* A variant of calendar.weekday that takes the ordinal of any day number.
weekday_unchecked(year, month, day) ==
    LET y == IF year >= 1 /\ year <= 9999 THEN year ELSE 2000 + (year % 400)
    IN  Returned(DayNames[((Ordinal(y, month, day) + 6) % 7) + 1])

\* calendar.day_name[calendar.weekday(year, month, day)]
weekday(year, month, day) ==
    LET y == IF year >= 1 /\ year <= 9999 THEN year ELSE 2000 + (year % 400)
    IN  IF day > DaysInMonth(y, month)
        THEN Raised("day is out of range for month")
        ELSE Returned(DayNames[((Ordinal(y, month, day) + 6) % 7) + 1])

day_name_tool(year, month, day) ==
    IF year < 1 THEN Raised("Year must be a positive integer.")
    ELSE IF ~(1 <= month /\ month <= 12) THEN Raised("Month must be between 1 and 12.")
    ELSE IF ~(1 <= day /\ day <= 31) THEN Raised("Day must be between 1 and 31.")
    ELSE weekday(year, month, day)

\* The years, months and days a call is made with: years before 1, leap and
\* common years, century years, a year past datetime.MAXYEAR; months and
\* days from below their range to above it.
Years == {-1, 0, 1, 1900, 2000, 2023, 2024, 2025, 10000}

Months == 0..13

Days == 0..32

Date(year, month, day) == [year |-> year, month |-> month, day |-> day]

DayInit ==
    /\ date \in {Date(y, m, d) : y \in Years, m \in Months, d \in Days}
    /\ day_name = Pending

\* No call of day_name_tool is followed.
DayIdle ==
    /\ date = Date(2025, 1, 1)
    /\ day_name = Pending

DayNameTool ==
    /\ day_name.pc = "called"
    /\ day_name' = day_name_tool(date.year, date.month, date.day)
    /\ UNCHANGED date
    /\ UNCHANGED <<convVars, admVars, mgrVars, memVars, strVars, readVars>>

DayNext == DayNameTool

(***************************************************************************)
(* The long-term memory read of llm_call_node (logic/nodes.py).  A store   *)
(* holds, per namespace, the item under the key "user_details" or none;    *)
(* the value of an item may or may not have the key "memory".  Two runs    *)
(* of the node are followed side by side, for the same user and the same   *)
(* State, each on its own store.  build_graph compiles the graph with a    *)
(* checkpointer and no store: a node run without a store raises before it  *)
(* has built any input, so both outcomes are followed.                     *)
(***************************************************************************)

\* The users who issue turns: str(current_user.id).
Users == {"1", "2"}

Namespace(uid) == <<"memory", uid>>

Namespaces == {Namespace(u) : u \in Users}

\* An item of the store (present: there is one) and the "memory" of its value
\* (has_memory: the value has the key).
Item(has_memory, memory) == [present |-> TRUE, has_memory |-> has_memory, memory |-> memory]

NoItem == [present |-> FALSE, has_memory |-> FALSE, memory |-> ""]

Items == {NoItem, Item(FALSE, ""), Item(TRUE, "likes tea"), Item(TRUE, "likes coffee")}

\* The store a run of the node is given: bound with its items, or none.
Store(items) == [bound |-> TRUE, items |-> items]

NoStore == [bound |-> FALSE, items |-> [n \in Namespaces |-> NoItem]]

Stores == {Store(items) : items \in [Namespaces -> Items]}

\* store.aget(namespace, key) for key "user_details".
aget(st, namespace) == st.items[namespace]

\* A variant that reads the first item found under the prefix ("memory",),
\* whoever it belongs to.
user_details_content_any_user(st, uid) ==
    LET found == {n \in Namespaces : st.items[n].present}
    IN  IF found = {} THEN "No memory found."
        ELSE LET first == CHOOSE n \in found : \A o \in found : n = o \/ n[2] = "1"
             IN  IF st.items[first].has_memory THEN st.items[first].memory ELSE "None"

\* user_details.value.get("memory") when there is an item, formatted into the
\* system prompt (None when the value has no such key).
user_details_content(st, uid) ==
    LET user_details == aget(st, Namespace(uid))
    IN  IF user_details.present
        THEN (IF user_details.has_memory THEN user_details.memory ELSE "None")
        ELSE "No memory found."

\* inputs = [sys_msg] + msgs_with_summary + [query], by what each part is
\* built from.
Inputs(pc_, sys_msg) ==
    [pc |-> pc_, sys_msg |-> sys_msg,
     summary_msg |-> IF pc_ = "built" THEN summary ELSE "",
     messages |-> IF pc_ = "built" THEN messages ELSE <<>>,
     query |-> IF pc_ = "built" THEN query ELSE <<>>]

\* None built yet.
NoInputs == Inputs("called", "")

PromptInputs(st, uid) ==
    IF st.bound
    THEN Inputs("built", user_details_content(st, uid))
    ELSE Inputs("raised", "")

Runs == {1, 2}

\* The stores of the two runs differ at most in the record of another user.
ReadInit ==
    /\ user_id \in Users
    /\ \/ \E st \in Stores, other \in Users \ {user_id}, item \in Items :
              store = <<st, [st EXCEPT !.items[Namespace(other)] = item]>>
       \/ store = <<NoStore, NoStore>>
    /\ prompt_inputs = [r \in Runs |-> NoInputs]

\* No run of llm_call_node is followed.
ReadIdle ==
    /\ user_id = "1"
    /\ store = <<NoStore, NoStore>>
    /\ prompt_inputs = [r \in Runs |-> NoInputs]

LlmCallNodeBuildsInputs(r) ==
    /\ prompt_inputs[r].pc = "called"
    /\ prompt_inputs' = [prompt_inputs EXCEPT ![r] = PromptInputs(store[r], user_id)]
    /\ UNCHANGED <<store, user_id>>
    /\ UNCHANGED <<convVars, admVars, mgrVars, memVars, strVars, dayVars>>

ReadNext == \E r \in Runs : LlmCallNodeBuildsInputs(r)

(***************************************************************************)
(* The specifications.  Spec: one turn on a conversation thread that is    *)
(* new or has completed up to MaxPriorTurns plain turns.  AdmissionSpec:   *)
(* NumRequests /chat_stream requests against the admission counter, with   *)
(* Redis reachable or not at the start.  ManagerSpec: NumTasks tasks and   *)
(* the shutdown hook on a freshly constructed GraphManager.                *)
(***************************************************************************)
Init == (\E k \in PriorTurns : ConvInit(k)) /\ AdmInit(TRUE) /\ MgrInit /\ MemIdle /\ StrIdle /\ DayIdle /\ ReadIdle

Next ==
    \/ \E checkpoint_id \in SuppliedIds : StartTurn(checkpoint_id)
    \/ LlmCallStep
    \/ ToolsStep
    \/ SummarizeStep
    \/ ToolsSummarizeStep
    \/ AttemptFails
    \/ EmitEnd
    \/ RunFailurePropagates

Spec == Init /\ [][Next]_vars

\* LiveSpec: the turn of Spec under the scheduling of the graph runtime, whose
\* loop runs the nodes scheduled for a superstep as long as there are any: a
\* superstep that can be taken is taken, whether its nodes return at once or
\* after failed attempts.
Superstep == LlmCallStep \/ ToolsStep \/ SummarizeStep \/ ToolsSummarizeStep

\* The thread of the turn is new, or one turn short of MAX_MESSAGES, or at it.
LiveInit ==
    /\ \E k \in {0, MaxPriorTurns - 1, MaxPriorTurns} : ConvInit(k)
    /\ AdmInit(TRUE) /\ MgrInit /\ MemIdle /\ StrIdle /\ DayIdle /\ ReadIdle

LiveSpec == LiveInit /\ [][Next]_vars /\ WF_vars(Superstep)

\* ResumeSpec: up to MaxTurns turns on a database that holds no thread or one
\* thread of MaxPriorTurns plain turns.
ResumeInit == (\E k \in {0, MaxPriorTurns} : ConvInit(k)) /\ AdmInit(TRUE) /\ MgrInit /\ MemIdle /\ StrIdle /\ DayIdle /\ ReadIdle

ResumeNext ==
    \/ \E checkpoint_id \in SuppliedIds : StartTurn(checkpoint_id)
    \/ LlmCallStep
    \/ ToolsStep
    \/ SummarizeStep
    \/ ToolsSummarizeStep
    \/ AttemptFails
    \/ EmitEnd
    \/ RunFailurePropagates
    \/ NextRequest
    \/ ProcessRestarts

ResumeSpec == ResumeInit /\ [][ResumeNext]_vars

AdmissionInit == ConvInit(0) /\ (\E up \in BOOLEAN : AdmInit(up)) /\ MgrInit /\ MemIdle /\ StrIdle /\ DayIdle /\ ReadIdle

AdmissionSpec == AdmissionInit /\ [][AdmNext]_vars

\* LoadedAdmissionSpec: the same requests arriving while streams admitted
\* earlier are active throughout: none, or MAX_CONCURRENT of them counted by
\* the Redis key, and none or MAX_CONCURRENT by the in-memory counter.
LoadedAdmInit ==
    /\ redis_count \in {0, MAX_CONCURRENT}
    /\ redis_up \in BOOLEAN
    /\ redis_outage = ~redis_up
    /\ ttl_set = FALSE
    /\ concurrent_counter \in {0, MAX_CONCURRENT}
    /\ req = [r \in Requests |-> [pc |-> "idle", via |-> "none", decs |-> <<>>,
                                  incs |-> {}]]

LoadedAdmissionInit == ConvInit(0) /\ LoadedAdmInit /\ MgrInit /\ MemIdle /\ StrIdle /\ DayIdle /\ ReadIdle

LoadedAdmissionSpec == LoadedAdmissionInit /\ [][AdmNext]_vars

\* LimiterSpec: NumRequests holders of limit_concurrent_streams.
LimiterSpec == AdmissionInit /\ [][LimiterNext]_vars

ManagerInit == ConvInit(0) /\ AdmInit(TRUE) /\ MgrInit /\ MemIdle /\ StrIdle /\ DayIdle /\ ReadIdle

ManagerSpec == ManagerInit /\ [][MgrNext]_vars

\* MemorySpec: a payload merged into a record, and merged again.
MemoryInit == ConvInit(0) /\ AdmInit(TRUE) /\ MgrInit /\ MemInit /\ StrIdle /\ DayIdle /\ ReadIdle

MemorySpec == MemoryInit /\ [][MemNext]_vars

\* StreamSpec: one turn whose client may go away, on a new thread or on one
\* of MaxPriorTurns plain turns, and chat_history requests before the turn
\* and once its stream has been left.
StreamInit ==
    (\E k \in {0, MaxPriorTurns} : ConvInit(k)) /\ AdmInit(TRUE) /\ MgrInit /\ MemIdle /\ StrIdle /\ DayIdle /\ ReadIdle

StreamSpec == StreamInit /\ [][StreamNext]_vars

\* DaySpec: one call of day_name_tool, with arguments in and out of range.
DayNameInit == ConvInit(0) /\ AdmInit(TRUE) /\ MgrInit /\ MemIdle /\ StrIdle /\ DayInit /\ ReadIdle

DaySpec == DayNameInit /\ [][DayNext]_vars

\* ReadSpec: two runs of llm_call_node for one user, on stores that differ at
\* most in the record of another user.
ReadSpecInit ==
    (\E k \in {0, MaxPriorTurns} : ConvInit(k)) /\ AdmInit(TRUE) /\ MgrInit /\ MemIdle /\ StrIdle /\ DayIdle /\ ReadInit

ReadSpec == ReadSpecInit /\ [][ReadNext]_vars

(***************************************************************************)
(* Properties of a graph run (Spec).                                       *)
(***************************************************************************)
\* The nodes that ran (or are scheduled to run) right after superstep i.
SuccessorsOf(i) == IF i < Len(visits) THEN visits[i + 1].nodes ELSE next

LlmVisit(i) == visits[i].nodes = {"llm_call"}

\* C1: when the response of an llm_call step requests a tool call and
\* len(messages) exceeds MAX_MESSAGES, summarize does not run as a successor
\* of that step (summarization is deferred to a later tool-free response).
C1_SummarizeDeferredBehindTools ==
    \A i \in 1..Len(visits) :
        (LlmVisit(i) /\ visits[i].calls # <<>> /\ visits[i].nmsgs > MAX_MESSAGES)
            => "summarize" \notin SuccessorsOf(i)

\* C2: tools runs in the superstep right after an llm_call step if and only
\* if the response of that step carries at least one tool call.
C2_ToolsIffToolCalls ==
    \A i \in 1..Len(visits) :
        LlmVisit(i) => (("tools" \in SuccessorsOf(i)) <=> (Len(visits[i].calls) >= 1))

C2_Witness ==
    \E i \in 1..Len(visits) :
        /\ i < Len(visits)
        /\ LlmVisit(i)
        /\ Len(visits[i].calls) >= 1
        /\ "tools" \in visits[i + 1].nodes

\* C3: after an llm_call step whose response has no tool call, the run ends
\* (no successor) iff len(messages) after the merge is at most MAX_MESSAGES,
\* and runs summarize iff it is strictly greater.
C3_EndOrSummarizeAtThreshold ==
    \A i \in 1..Len(visits) :
        (LlmVisit(i) /\ visits[i].calls = <<>>)
            => /\ (SuccessorsOf(i) = {}) <=> (visits[i].nmsgs <= MAX_MESSAGES)
               /\ (SuccessorsOf(i) = {"summarize"}) <=> (visits[i].nmsgs > MAX_MESSAGES)
               /\ (i = Len(visits) /\ visits[i].nmsgs <= MAX_MESSAGES)
                      => pc \in {"finished", "closed"}

\* The boundary: exactly MAX_MESSAGES messages, and the run ended unsummarized.
C3_Witness ==
    /\ pc = "finished"
    /\ Len(visits) >= 1
    /\ LlmVisit(Len(visits))
    /\ visits[Len(visits)].calls = <<>>
    /\ Len(messages) = MAX_MESSAGES
    /\ next = {}

\* The edges a run may follow from one superstep to the next.
GraphEdges ==
    {<<"llm_call", "tools">>, <<"llm_call", "summarize">>, <<"tools", "llm_call">>}

\* C4: every tools step is followed by llm_call alone; consecutive supersteps
\* follow only the edges llm_call -> tools, llm_call -> summarize and
\* tools -> llm_call, so llm_call -> tools -> llm_call is the only cycle; and
\* for a response with exactly one tool call the tools step that follows
\* returns exactly one tool message, which carries that call's identifier.
C4_ToolRoundTrip ==
    \A i \in 1..Len(visits) :
        /\ "tools" \in visits[i].nodes
              => /\ SuccessorsOf(i) = {"llm_call"}
                 /\ i > 1 /\ LlmVisit(i - 1)
        /\ \A m \in SuccessorsOf(i) :
              \E n \in visits[i].nodes : <<n, m>> \in GraphEdges
        /\ (LlmVisit(i) /\ Len(visits[i].calls) = 1 /\ i < Len(visits))
              => /\ "tools" \in visits[i + 1].nodes
                 /\ Len(visits[i + 1].tool_msgs) = 1
                 /\ visits[i + 1].tool_msgs[1].type = "tool"
                 /\ visits[i + 1].tool_msgs[1].tool_call_id = visits[i].calls[1].id
                 /\ (i + 1 = Len(visits)) => Last(messages) = visits[i + 1].tool_msgs[1]

\* A one-call round trip completed and llm_call ran again.
C4_Witness ==
    /\ Len(visits) = 3
    /\ LlmVisit(1) /\ Len(visits[1].calls) = 1
    /\ visits[2].nodes = {"tools"}
    /\ LlmVisit(3)

\* C5: once summarize has run, nothing runs after it in that run.
C5_SummarizeThenEnd ==
    \A i \in 1..Len(visits) :
        "summarize" \in visits[i].nodes => SuccessorsOf(i) = {}

(***************************************************************************)
(* Properties of the stream of one turn (Spec).                            *)
(***************************************************************************)
Kinds == [i \in 1..Len(sse) |-> sse[i].type]

CountOf(type) == Cardinality({i \in 1..Len(sse) : sse[i].type = type})

StreamOver == pc \in {"closed", "raised"}

\* C9: a stream that is over holds exactly one end event, as its last event,
\* whether the run produced content, produced none, or failed.
C9_ExactlyOneEndLast ==
    StreamOver => /\ CountOf("end") = 1
                  /\ Len(sse) >= 1
                  /\ Kinds[Len(sse)] = "end"

\* The tool calls of all responses of the run, in order.
RECURSIVE CallsFrom(_)
CallsFrom(i) ==
    IF i > Len(visits) THEN <<>> ELSE visits[i].calls \o CallsFrom(i + 1)

\* The run made exactly one tool call, a search_tool call.
TurnTriggersOneSearch ==
    /\ Len(CallsFrom(1)) = 1
    /\ CallsFrom(1)[1].name = "search_tool"

\* checkpoint?, search_start, search_result?, content*, end.
SearchTurnSequence(k) ==
    LET p == IF Len(k) >= 1 /\ k[1] = "checkpoint" THEN 2 ELSE 1
    IN  /\ Len(k) >= p + 1
        /\ k[p] = "search_start"
        /\ k[Len(k)] = "end"
        /\ \A j \in (p + 1)..(Len(k) - 1) :
              \/ k[j] = "content"
              \/ j = p + 1 /\ k[j] = "search_result"

\* C10: the stream of a turn that triggers a search tool call is exactly
\* checkpoint?, search_start, search_result?, content*, end, with no content
\* event before search_start (stated here for the turns whose graph run
\* completes after exactly one search_tool call).
C10_SearchTurnOrdering ==
    (pc = "closed" /\ TurnTriggersOneSearch) => SearchTurnSequence(Kinds)

(***************************************************************************)
(* Properties of a turn's start and of the nodes (Spec).                   *)
(***************************************************************************)
\* C11: a stream holds a checkpoint event iff the request carried no
\* checkpoint_id; it is then the only one, the first event of the stream, and
\* carries the thread_id of the graph run; a resumed turn has none and runs
\* on the supplied identifier.
C11_CheckpointEventIffNew ==
    pc # "idle" =>
        /\ (CountOf("checkpoint") >= 1) <=> (turn.checkpoint_id = 0)
        /\ turn.checkpoint_id = 0
              => /\ CountOf("checkpoint") = 1
                 /\ sse[1] = Sse("checkpoint", thread_id)
        /\ turn.checkpoint_id # 0
              => /\ CountOf("checkpoint") = 0
                 /\ thread_id = turn.checkpoint_id

\* A new conversation whose stream is over, announced first.
C11_Witness ==
    /\ pc = "closed"
    /\ turn.checkpoint_id = 0
    /\ Len(sse) >= 3
    /\ sse[1].type = "checkpoint"

\* The latest superstep ran summarize.
SummarizeJustRan ==
    /\ Len(visits) >= 1
    /\ "summarize" \in Last(visits).nodes
    /\ passes # <<>>

\* The messages of s that are (unmodified) entries of b, in the order of s.
Survivors(s, b) == SelectSeq(s, LAMBDA m : \E j \in 1..Len(b) : b[j] = m)

\* After a successful pass the survivors among the messages that existed
\* before it are the last two, in order (all of them when there were fewer
\* than three), and a pass of summarize alone leaves nothing else.
SummarizationKeepsLastTwo ==
    (SummarizeJustRan /\ Last(passes).ok) =>
        LET b == Last(passes).before
        IN  /\ Len(b) >= 3 => Survivors(messages, b) = <<b[Len(b) - 1], b[Len(b)]>>
            /\ Len(b) < 3 => Survivors(messages, b) = b
            /\ Last(visits).nodes = {"summarize"} => messages = Survivors(messages, b)

\* C12: after a successful summarization pass exactly the two most recent
\* messages that existed before it remain, in order, all older ones are
\* removed, and summary is non-empty.
C12_SummarizationBoundsHistory ==
    /\ SummarizationKeepsLastTwo
    /\ (SummarizeJustRan /\ Last(passes).ok) => summary # ""

\* C13: a summarization pass that starts with a non-empty summary never
\* leaves summary empty, and its prompt carries that prior summary.
C13_SummaryMonotonic ==
    \A i \in 1..Len(passes) :
        passes[i].prior_summary # ""
            => /\ passes[i].summary # ""
               /\ passes[i].prompt.template = "summary_prompt"
               /\ passes[i].prompt.summary = passes[i].prior_summary

\* C14: a pass whose model request fails writes the prior summary and no
\* message; after such a pass of summarize alone summary and messages are
\* what they were, no attempt has failed and the run has ended normally.
C14_SummarizationFailureIsLocal ==
    /\ \A i \in 1..Len(passes) :
          ~passes[i].ok => /\ passes[i].summary = passes[i].prior_summary
                           /\ passes[i].delta = <<>>
    /\ (SummarizeJustRan /\ ~Last(passes).ok)
          => /\ summary = Last(passes).prior_summary
             /\ Survivors(messages, Last(passes).before) = Last(passes).before
             /\ Last(visits).nodes = {"summarize"}
                   => /\ messages = Last(passes).before
                      /\ attempts = 0
                      /\ next = {}
                      /\ pc \in {"finished", "closed"}

\* A run that ended after a failed pass on a thread that had a summary.
C14_Witness ==
    /\ pc = "closed"
    /\ SummarizeJustRan
    /\ ~Last(passes).ok
    /\ Last(visits).nodes = {"summarize"}
    /\ summary # ""

\* The nodes the step from the current state to the next one ran.
StepNodes ==
    IF Len(visits') = Len(visits) + 1 THEN visits'[Len(visits')].nodes ELSE {}

IsPrefix(s, t) == Len(s) <= Len(t) /\ \A i \in 1..Len(s) : s[i] = t[i]

\* C15: a step that does not run summarize leaves every message of every
\* thread in place and unmodified: the old messages are a prefix of the new.
C15_AppendOnlyWithoutSummarization ==
    [][\A t \in DOMAIN Checkpoints :
          (t \in DOMAIN Checkpoints' /\ "summarize" \notin StepNodes)
              => IsPrefix(Checkpoints[t].messages, Checkpoints'[t].messages)]_vars

\* A resumed turn with a tool round trip, completed without summarization.
C15_Witness ==
    /\ pc = "closed"
    /\ turn.checkpoint_id # 0
    /\ Len(visits) = 3
    /\ passes = <<>>
    /\ Len(messages) >= 10

\* The second turn resumed the conversation the first turn started and
\* completed, and its stream is over.
SecondTurnResumesFirst ==
    /\ pc = "closed"
    /\ turn.n = 2
    /\ turn.first.new
    /\ turn.first.completed
    /\ turn.checkpoint_id = turn.first.thread

\* The history is the first turn's messages followed by the second turn's:
\* its query and at least the final response.
BothTurnsInOrder ==
    LET f == turn.first.messages
    IN  /\ f # <<>>
        /\ IsPrefix(f, messages)
        /\ Len(messages) >= Len(f) + 2
        /\ messages[Len(f) + 1] = Last(query)
        /\ Last(messages).type = "ai"

\* C16: after a completed first turn on a new conversation and a completed
\* second turn resumed with its identifier, the history holds both turns'
\* messages in order, whether or not the process restarted in between.
C16_ResumedHistoryHoldsBothTurns ==
    SecondTurnResumesFirst => BothTurnsInOrder

\* C16, for the turns in which no summarization pass succeeded: after a
\* completed first turn on a new conversation and a completed second turn
\* resumed with its identifier, the history holds both turns' messages in
\* order, whether or not the process restarted in between.
C16_ResumedHistoryUnlessSummarized ==
    (SecondTurnResumesFirst /\ ~turn.first.summarized /\ ~Summarized)
        => BothTurnsInOrder

\* Both turns completed with a process restart in between.
C16_Witness ==
    /\ SecondTurnResumesFirst
    /\ turn.restarted
    /\ ~Summarized
    /\ Len(visits) = 3

\* C17: a failed attempt leaves the run where it was (no completed node runs
\* again, the same superstep is attempted again), a superstep has at most
\* MAX_ATTEMPTS failed attempts, and the last of them fails the run.
C17_RetryPerNode ==
    [][attempts' = attempts + 1
          => /\ attempts' <= MAX_ATTEMPTS
             /\ visits' = visits
             /\ next' = next
             /\ Channels' = Channels
             /\ pc' \in {"running", "failed"}
             /\ attempts' = MAX_ATTEMPTS => pc' = "failed"]_vars

\* tools failed MAX_ATTEMPTS times after llm_call completed once.
C17_Witness ==
    /\ pc = "failed"
    /\ attempts = MAX_ATTEMPTS
    /\ next = {"tools"}
    /\ Len(visits) = 1

\* C18: an invocation makes the tool-bound request first; when it fails,
\* exactly one tool-free request with the same inputs follows; the node
\* returns that request's response, or raises to the retry policy when it
\* fails too.
C18_FallbackOnce ==
    LET r == invocation.requests
    IN  r # <<>> =>
            /\ r[1].tools
            /\ r[1].error = "" => Len(r) = 1 /\ ~invocation.raised
            /\ r[1].error # ""
                  => /\ Len(r) = 2
                     /\ ~r[2].tools
                     /\ r[2].inputs = r[1].inputs
                     /\ r[2].error = ""
                           => /\ ~invocation.raised
                              /\ invocation.response.tool_calls = <<>>
                              /\ invocation.out_messages[2] = invocation.response
                     /\ r[2].error # "" => invocation.raised /\ attempts >= 1

\* A run ended on the response of the tool-free request.
C18_Witness ==
    /\ pc = "finished"
    /\ Len(invocation.requests) = 2
    /\ invocation.requests[2].error = ""
    /\ Last(messages) = invocation.response

\* C19: a tool-free request is made only after the tool-bound request was
\* rejected for its tool schemas.
C19_FallbackOnlyOnToolSchemaRejection ==
    \A i \in 1..Len(invocation.requests) :
        ~invocation.requests[i].tools => invocation.requests[1].error = "tool_schema"

\* The step runs llm_call and the node returns.
LlmCallReturns ==
    /\ pc = "running"
    /\ next = {"llm_call"}
    /\ Len(visits') = Len(visits) + 1

\* C20: a successful llm_call_node invocation sets answer to the content of
\* the response, writes to messages the latest query entry and then the
\* response, and leaves summary and query as they were.
C20_LlmCallWrites ==
    [][LlmCallReturns
          => /\ answer' = invocation'.content
             /\ invocation'.out_messages = <<Last(query), invocation'.response>>
             /\ Last(messages') = invocation'.response
             /\ \E i \in 1..(Len(messages') - 1) : messages'[i] = Last(query)
             /\ summary' = summary
             /\ query' = query]_vars

\* A response that is solely a tool-call request: answer is empty.
C20_Witness ==
    /\ Len(visits) >= 1
    /\ LlmVisit(Len(visits))
    /\ invocation.response.tool_calls # <<>>
    /\ invocation.content = 0
    /\ answer = 0
    /\ Last(messages) = invocation.response

(***************************************************************************)
(* Properties of the runs counter and of the events of a stream (Spec).    *)
(***************************************************************************)
\* C21: every llm_call_node invocation that returns increments runs by one,
\* and no step of a run decreases runs.
C21_RunsCountsInvocations ==
    [][/\ LlmCallReturns => runs' = runs + 1
       /\ pc = "running" => runs' >= runs]_vars

\* The payloads of the events of one type on the stream, in order.
PayloadsOf(type) ==
    LET of_type == SelectSeq(sse, LAMBDA e : e.type = type)
    IN  [i \in 1..Len(of_type) |-> of_type[i].data]

\* The chunks streamed by a model run, by whether llm_call ran it.
ChunksOf(by_llm_call) ==
    SelectSeq(events, LAMBDA ev : /\ ev.event = "on_chat_model_stream"
                                  /\ (ev.node = "llm_call") = by_llm_call)

\* llm_call_node returned in the latest step.
LlmCallJustReturned == invocation.requests # <<>> /\ ~invocation.raised

CompletionsOf(name) ==
    SelectSeq(events, LAMBDA ev : ev.event = "on_tool_end" /\ ev.name = name)

\* C23: the search_result events of the stream are, in order, those of the
\* Tavily completions from whose output at least one url was extracted; each
\* carries all extracted urls in result order; a completion without a url
\* has no event.
C23_SearchResultIffUrls ==
    LET found == SelectSeq(CompletionsOf("tavily_search"),
                           LAMBDA ev : ExtractUrls(ev.output) # <<>>)
        results == SelectSeq(sse, LAMBDA e : e.type = "search_result")
    IN  /\ Len(results) = Len(found)
        /\ \A i \in 1..Len(results) :
              /\ results[i].urls = ExtractUrls(found[i].output)
              /\ results[i].urls # <<>>
              /\ \A j \in 1..Len(results[i].urls) :
                    results[i].urls[j] = found[i].output.results[j].url

\* A completed turn with a search_result event of at least two urls.
C23_Witness ==
    /\ pc = "closed"
    /\ \E i \in 1..Len(sse) : sse[i].type = "search_result" /\ Len(sse[i].urls) >= 2

\* A completed search without a url, and no search_result event.
SearchFoundNothing ==
    /\ pc = "closed"
    /\ CompletionsOf("tavily_search") # <<>>
    /\ PayloadsOf("search_result") = <<>>

\* The date_and_time_tool calls whose tools step completed, in order.
RECURSIVE CompletedDateCalls(_)
CompletedDateCalls(i) ==
    IF i > Len(visits) THEN <<>>
    ELSE (IF "tools" \in visits[i].nodes
          THEN SelectSeq(visits[i - 1].calls, LAMBDA c : c.name = "date_and_time_tool")
          ELSE <<>>)
         \o CompletedDateCalls(i + 1)

EventTypes ==
    {"checkpoint", "content", "search_start", "search_result", "date_result", "end"}

\* C25: the line of every event of the stream decodes, with parse_sse_event,
\* to an object whose type is the type of the event, one of the six values of
\* Events, and whose payload is the payload of the event.
C25_EventsDecodable ==
    \A i \in 1..Len(sse) :
        LET d == parse_sse_event(SseLine(sse[i]))
        IN  /\ d.ok
            /\ d.type \in EventTypes
            /\ d.type = sse[i].type
            /\ d.data = sse[i].data
            /\ d.urls = sse[i].urls

\* The events written with json.dumps do decode to their type and payload.
DumpedEventsDecodable ==
    \A i \in 1..Len(sse) :
        sse[i].type \notin {"search_result", "end"}
            => parse_sse_event(SseLine(sse[i])) =
                   Decoded(TRUE, sse[i].type, sse[i].data, sse[i].urls)

\* StreamingResponse(content=event_generator(), ...): the status line of the
\* response, sent before the first chunk is asked for.
StreamingResponseStatus == 200

\* C26: when the graph run has failed (a node exhausted its retries), the
\* stream is over and its last event is a terminal error event, or the
\* response is an error response.
C26_RunFailureSurfaced ==
    pc = "raised" =>
        \/ sse # <<>> /\ Last(sse).type \notin EventTypes
        \/ StreamingResponseStatus >= 400

(***************************************************************************)
(* Properties of the end of a run, the query entry and search_start (Spec, *)
(* LiveSpec).                                                              *)
(***************************************************************************)
\* Supersteps of the run in flight that ran llm_call.
LlmCalls == Cardinality({i \in 1..Len(visits) : "llm_call" \in visits[i].nodes})

SearchingResponses ==
    SelectSeq(events, LAMBDA ev : /\ ev.event = "on_chat_model_end"
                                  /\ \E i \in 1..Len(ev.tool_calls) :
                                         ev.tool_calls[i].name = "search_tool")

\* The first search_tool call of a response.
FirstSearchCall(ev) ==
    ev.tool_calls[CHOOSE i \in 1..Len(ev.tool_calls) :
                      /\ ev.tool_calls[i].name = "search_tool"
                      /\ \A j \in 1..(i - 1) : ev.tool_calls[j].name # "search_tool"]

\* C33: the search_start events of the stream are, in order, one per
\* completed model response that carries a search_tool call, each with the
\* query of the first search_tool call of its response (so a response with
\* other tool calls only has none); the completion of a tool call comes after
\* the response that made the call, and every search_result event after a
\* search_start event.
C33_SearchStartPerSearchingResponse ==
    /\ PayloadsOf("search_start")
          = [i \in 1..Len(SearchingResponses) |-> FirstSearchCall(SearchingResponses[i]).id]
    /\ \A p \in 1..Len(events) :
          (events[p].event = "on_tool_end" /\ events[p].name # "tavily_search") =>
              \E q \in 1..(p - 1) :
                  /\ events[q].event = "on_chat_model_end"
                  /\ \E i \in 1..Len(events[q].tool_calls) :
                         events[q].tool_calls[i].id = events[p].output.content
    /\ \A j \in 1..Len(sse) :
          sse[j].type = "search_result" =>
              \E i \in 1..(j - 1) : sse[i].type = "search_start"

\* A completed turn whose response carried two search_tool calls and a
\* date_and_time_tool call: one search_start event, and a search_result
\* event after it.
C33_Witness ==
    /\ pc = "closed"
    /\ \E ev \in {SearchingResponses[i] : i \in 1..Len(SearchingResponses)} :
           Len(ev.tool_calls) = 3
    /\ Len(PayloadsOf("search_start")) = 1
    /\ PayloadsOf("search_result") # <<>>

\* A completed turn whose response carried a date_and_time_tool call only,
\* and no search_start event.
OtherToolOnly ==
    /\ pc = "closed"
    /\ \E p \in 1..Len(events) :
           /\ events[p].event = "on_chat_model_end"
           /\ events[p].tool_calls # <<>>
    /\ SearchingResponses = <<>>
    /\ PayloadsOf("search_start") = <<>>

\* The positions of messages that hold the query message of the turn.
QueryPositions == {i \in 1..Len(messages) : messages[i].id = Last(query).id}

\* The query message is in messages once, as it was sent, and ahead of
\* every message the turn added (their ids are later than its own).
QueryOnceBeforeResponses ==
    /\ Cardinality(QueryPositions) = 1
    /\ \A i \in QueryPositions :
           /\ messages[i] = Last(query)
           /\ \A j \in 1..Len(messages) : messages[j].id > Last(query).id => i < j

\* llm_call has run in the turn and a tool round trip has been made.
AfterToolRoundTrip == visits # <<>> /\ ToolRounds >= 1

\* C37: in a turn with a tool round trip the query message is in messages
\* exactly once, ahead of the first response, however often llm_call ran.
C37_QueryExactlyOnce == AfterToolRoundTrip => QueryOnceBeforeResponses

\* C37, for the turns in which no summarization pass has succeeded: in a
\* turn with a tool round trip the query message is in messages exactly
\* once, ahead of the first response, however often llm_call ran.
C37_QueryOnceUnlessSummarized ==
    (AfterToolRoundTrip /\ ~Summarized) => QueryOnceBeforeResponses

\* A completed turn in which llm_call ran twice around a tool round trip,
\* on a thread with earlier messages, and no summarization succeeded.
C37_Witness ==
    /\ pc = "closed"
    /\ ToolRounds = 1
    /\ Cardinality({i \in 1..Len(visits) : visits[i].nodes = {"llm_call"}}) = 2
    /\ ~Summarized
    /\ turn.checkpoint_id # 0
    /\ QueryOnceBeforeResponses

(***************************************************************************)
(* Properties of a stream whose client goes away and of chat_history       *)
(* (StreamSpec).                                                           *)
(***************************************************************************)
\* The messages of a response that gives every stored message, in order.
FormattedMessages(stored) == [i \in 1..Len(stored) |-> FormattedMessage(stored[i])]

\* The loop was left on a disconnection: what was forwarded is what was
\* taken before the event that met the disconnection.
NothingForwardedAfterDisconnect ==
    event_generator.pc = "broke" =>
        forwarded = SubSeq(sse, 1, event_generator.taken - 1)

\* The checkpoint of the thread is the state the last completed superstep
\* of the run left (the state the run started from while none completed).
CheckpointOfLastCompletedStep ==
    /\ visits # <<>> => Len(messages) = Last(visits).nmsgs
    /\ pc = "cancelled" => thread_id \in DOMAIN Checkpoints

\* C27: once the disconnection is detected nothing more is forwarded (the
\* event that met it is dropped), the checkpoints written stay as the last
\* completed step left them, and a chat_history request made afterwards
\* gives the messages of that checkpoint.
C27_DisconnectKeepsProgress ==
    /\ NothingForwardedAfterDisconnect
    /\ event_generator.pc = "broke" => CheckpointOfLastCompletedStep
    /\ chat_history.after_disconnect /\ chat_history.stored # <<>> =>
           chat_history.response.messages = FormattedMessages(chat_history.stored)

\* The parts of C27 that do not go through chat_history.
StreamLeftOnDisconnect ==
    /\ NothingForwardedAfterDisconnect
    /\ event_generator.pc = "broke" => CheckpointOfLastCompletedStep

\* A run cancelled after a completed superstep, one event dropped.
DisconnectedMidRun ==
    /\ pc = "cancelled"
    /\ visits # <<>>
    /\ event_generator.taken > 1
    /\ Len(forwarded) = event_generator.taken - 1
    /\ Len(sse) > event_generator.taken

\* C28: a chat_history request is answered with 404 when the thread has no
\* checkpoint or its checkpoint holds no message, and otherwise with every
\* message of the checkpoint, in stored order, as role and content, and
\* with their number as message_count.
C28_HistoryOfCheckpoint ==
    chat_history.n > 0 =>
        LET response == chat_history.response
        IN  IF chat_history.stored = <<>>
            THEN response.status_code = 404
            ELSE /\ response.status_code = 200
                 /\ response.messages = FormattedMessages(chat_history.stored)
                 /\ response.message_count = Len(response.messages)

\* What C28 says, of the body of the route function alone.
BodyGivesCheckpoint ==
    \A checkpoint_id \in SuppliedIds \ {0} :
        LET response == get_chat_history(checkpoint_id)
            stored == StoredMessages(checkpoint_id)
        IN  IF stored = <<>>
            THEN response = Response(404, <<>>, 0)
            ELSE response = Response(200, FormattedMessages(stored), Len(stored))

\* An unknown thread, and a thread whose checkpoint holds no message yet,
\* are answered with 404.
NotFoundAnswered ==
    /\ chat_history.n > 0
    /\ chat_history.response.status_code = 404
    /\ chat_history.checkpoint_id \in DOMAIN Checkpoints

\* C34: a chat_history request made for a conversation once a turn on it
\* has completed gives the messages of the checkpoint that turn left, also
\* when an earlier request for the same identifier was answered before.
C34_CompletedTurnVisible ==
    chat_history.turn_completed =>
        chat_history.response.messages = FormattedMessages(chat_history.stored)

(***************************************************************************)
(* Properties of a memory merge (MemorySpec).                              *)
(***************************************************************************)
\* C29: merging the same payload a second time gives the record that
\* merging it once gave, whatever the record and the payload (a list of the
\* payload may repeat elements, a field of it may be absent from the record).
C29_MergeIdempotent ==
    Len(updated_memory) = 2 => updated_memory[2] = updated_memory[1]

Elements(l) == {l[i] : i \in 1..Len(l)}

\* The elements of `old` as they are met in `l`, each once.
OrderWithin(l, old) == Dedupe(SelectSeq(l, LAMBDA x : x \in Elements(old)))

\* C30: a merge erases nothing: the record returned has every key of the
\* record passed; a field whose new value is None, "" or [] keeps its
\* value; each element of an existing list is in the returned list, in the
\* order the elements had; and the record passed is left as it was.
C30_MergeErasesNothing ==
    updated_memory # <<>> =>
        LET result == updated_memory[1]
        IN /\ MemoryKeys(memory_before) \subseteq MemoryKeys(result)
           /\ \A f \in MemoryFields :
                  IsEmptyValue(new_memory[f]) => result[f] = memory_before[f]
           /\ \A f \in MemoryFields :
                  memory_before[f].kind = "list" =>
                      /\ result[f].kind = "list"
                      /\ Elements(memory_before[f].list) \subseteq Elements(result[f].list)
                      /\ OrderWithin(result[f].list, memory_before[f].list)
                             = Dedupe(memory_before[f].list)
           /\ existing_memory = memory_before

\* A merge that adds an element to a list, with "" for a scalar that has a
\* value and None for a dict that has one.
C30_Witness ==
    /\ updated_memory # <<>>
    /\ memory_before["interests"] = List(<<"b">>)
    /\ new_memory["interests"] = List(<<"a", "b">>)
    /\ updated_memory[1]["interests"] = List(<<"b", "a">>)
    /\ memory_before["timezone"] = Str("x")
    /\ new_memory["timezone"] = Str("")
    /\ new_memory["preferences"] = None
    /\ memory_before["preferences"].kind = "dict"

(***************************************************************************)
(* Properties of admission control (AdmissionSpec).                        *)
(***************************************************************************)
ActiveStreams == {r \in Requests : req[r].pc = "streaming"}

\* C6: the number of admitted streams that have not ended never exceeds
\* MAX_CONCURRENT, whatever the availability of Redis.
C6_AtMostMaxConcurrent == Cardinality(ActiveStreams) <= MAX_CONCURRENT

NoneInFlight == \A r \in Requests : req[r].pc \in {"idle", "rejected", "ended"}

\* C7: every admitted stream that has ended decremented the counter that
\* admitted it, exactly once, and once no request is in flight the counters
\* are back at the value they had before (0).  Stated here for the runs in
\* which Redis was reachable throughout.
C7_DecrementExactlyOnce ==
    ~redis_outage =>
        /\ \A r \in Requests : req[r].pc = "ended" => req[r].decs = <<req[r].via>>
        /\ NoneInFlight => (redis_count = 0 /\ concurrent_counter = 0)

\* No request is inside check_concurrent_limit or decrement_concurrent_count.
NoCheckOrDecrement ==
    \A r \in Requests : req[r].pc \in {"idle", "streaming", "rejected", "ended"}

\* C36: a rejected request has left no increment on the Redis counter nor on
\* the in-memory counter, and the in-memory counter is within
\* 0..MAX_CONCURRENT whenever no check or decrement is in progress.
C36_RejectionLeavesCounters ==
    /\ \A r \in Requests : req[r].pc = "rejected" => req[r].incs = {}
    /\ NoCheckOrDecrement => concurrent_counter \in 0..MAX_CONCURRENT

\* The in-memory counter alone: a rejection through the fallback leaves it
\* as it was, and it stays within its range.
FallbackCounterInRange == concurrent_counter \in 0..MAX_CONCURRENT

\* The holders whose body is running.
RunningBodies == {r \in Requests : req[r].pc \in {"body", "open"}}

\* The holders that have left the context.
Left(r) == req[r].pc \in {"returned", "raised", "runtime_error"}

\* C40: the body of limit_concurrent_streams runs for at most
\* MAX_CONCURRENT holders at a time, a holder that was admitted has
\* decremented the counter once when it has left, and no holder leaves
\* with another exception than the one its body raised.
C40_LimiterAdmitsAtMostMax ==
    /\ Cardinality(RunningBodies) <= MAX_CONCURRENT
    /\ ~redis_outage =>
           \A r \in Requests : Left(r) /\ req[r].via # "none" => Len(req[r].decs) = 1
    /\ \A r \in Requests : req[r].pc # "runtime_error"

\* What does hold: with Redis reachable throughout, an admitted holder
\* decrements the counter that admitted it, once.
AdmittedHolderDecrementsOnce ==
    ~redis_outage =>
        \A r \in Requests : Left(r) /\ req[r].via # "none" => req[r].decs = <<req[r].via>>

\* The body ran unadmitted for a holder that found the limit reached.
BodyRanOverLimit == \E r \in Requests : req[r].pc = "open" /\ Cardinality(RunningBodies) > MAX_CONCURRENT

\* The exception of an admitted body was replaced.
BodyExceptionReplaced == ~redis_outage /\ \E r \in Requests : req[r].pc = "runtime_error"

(***************************************************************************)
(* Properties of GraphManager (ManagerSpec).                               *)
(***************************************************************************)
\* C8: with tasks calling build_graph or initialize_checkpointer concurrently
\* (and no shutdown under way) the connection is opened once, the graph is
\* compiled once, and every open context is the one the manager holds.
C8_SingleConstruction ==
    shutdown = "no" =>
        /\ Cardinality(opened) <= 1
        /\ compiled <= 1
        /\ \A c \in opened \ closed : checkpointer_context = c

\* The tasks whose build_graph call has returned.
BuildGraphReturned ==
    {t \in Tasks : task[t].pc = "returned" /\ task[t].call = "build_graph"}

\* C31: once a build_graph call has returned, the manager has compiled one
\* graph and holds one open connection, and every build_graph call that has
\* returned gave that one graph.
C31_OneGraphOneConnection ==
    BuildGraphReturned # {} =>
        /\ compiled <= 1
        /\ Cardinality(opened \ closed) <= 1
        /\ \A t, u \in BuildGraphReturned : task[t].result = task[u].result

\* A call that finds a graph returns it, compiles nothing and opens nothing.
CachedGraphReturned ==
    [][\A t \in Tasks :
          (task[t].pc = "idle" /\ task'[t].call = "build_graph"
               /\ graph_instance # NoGraph)
          => /\ task'[t].pc = "returned"
             /\ task'[t].result = graph_instance.id
             /\ compiled' = compiled
             /\ nextCtx' = nextCtx]_vars

\* C35: a build_graph call that follows cleanup_checkpointer returns a graph
\* whose checkpointer is open.
C35_NeverClosedCheckpointer ==
    [][\A t \in Tasks :
          (shutdown = "done" /\ task[t].pc = "idle"
               /\ task'[t].pc = "returned" /\ task'[t].call = "build_graph")
          => graph_instance'.checkpointer \notin closed']_vars

(***************************************************************************)
(* Properties of day_name_tool (DaySpec).                                  *)
(***************************************************************************)
\* The date of the call is a date of the calendar.
ExistingDate ==
    /\ date.year >= 1
    /\ date.month \in 1..12
    /\ date.day \in 1..31
    /\ date.month \in {4, 6, 9, 11} => date.day <= 30
    /\ date.month = 2 =>
          /\ date.day <= 29
          /\ date.day = 29 =>
                (date.year % 4 = 0 /\ (date.year % 100 # 0 \/ date.year % 400 = 0))

\* C32: day_name_tool returns exactly for the dates that exist, and then a
\* name of a weekday; for every other input (year < 1, month outside 1..12,
\* day outside 1..31, or a day the month does not have) it raises an error
\* with a text and returns nothing; and 1 January 2025 is a Wednesday (as
\* 1 January 1900 is a Monday, 1 January 2000 a Saturday and 29 February 2024
\* a Thursday).
C32_WeekdayOnlyForExistingDates ==
    day_name.pc # "called" =>
        /\ (day_name.pc = "returned") <=> ExistingDate
        /\ day_name.pc = "returned" =>
              \E i \in 1..Len(DayNames) : day_name.value = DayNames[i]
        /\ day_name.pc = "raised" => (day_name.value = "" /\ day_name.error # "")
        /\ date = Date(2025, 1, 1) => day_name.value = "Wednesday"
        /\ date = Date(1900, 1, 1) => day_name.value = "Monday"
        /\ date = Date(2000, 1, 1) => day_name.value = "Saturday"
        /\ date = Date(2024, 2, 29) => day_name.value = "Thursday"

\* The call for 1 January 2025 returned Wednesday.
C32_Witness ==
    /\ date = Date(2025, 1, 1)
    /\ day_name = Returned("Wednesday")

\* The call for 30 February 2024 raised the error of the date constructor.
ThirtiethOfFebruaryRaised ==
    /\ date = Date(2024, 2, 30)
    /\ day_name = Raised("day is out of range for month")

(***************************************************************************)
(* Properties of the long-term memory read (ReadSpec).                     *)
(***************************************************************************)
\* What the record of the user of the turn holds in the store of run r.
RecordOfIssuingUser(r) == store[r].items[<<"memory", user_id>>]

\* C39: the memory in the inputs a run of llm_call_node built is that of the
\* record under ("memory", user_id) of the user of the turn (its "memory",
\* None when the value has none, "No memory found." when there is no record);
\* and two runs whose stores differ only in the record of another user end
\* alike: with identical inputs, or both raised.
C39_MemoryOfIssuingUserOnly ==
    /\ \A r \in Runs :
          prompt_inputs[r].pc = "built" =>
              prompt_inputs[r].sys_msg =
                  (IF ~RecordOfIssuingUser(r).present THEN "No memory found."
                   ELSE IF RecordOfIssuingUser(r).has_memory
                   THEN RecordOfIssuingUser(r).memory
                   ELSE "None")
    /\ (\A r \in Runs : prompt_inputs[r].pc # "called") =>
          prompt_inputs[1] = prompt_inputs[2]

\* Both runs built their inputs, from the memory of the user of the turn,
\* on stores that hold different memories for the other user.
C39_Witness ==
    /\ \A r \in Runs : prompt_inputs[r].pc = "built"
    /\ RecordOfIssuingUser(1).has_memory
    /\ \E other \in Users \ {user_id} :
           /\ store[1].items[Namespace(other)].has_memory
           /\ store[2].items[Namespace(other)].has_memory
           /\ store[1].items[Namespace(other)] # store[2].items[Namespace(other)]
    /\ prompt_inputs[1].messages # <<>>

\* Both runs raised: the node was given no store.
ReadWithoutStore ==
    \A r \in Runs : prompt_inputs[r].pc = "raised"

====
